---------------------------- MODULE Spec2Model ----------------------------
(***************************************************************************)
(* A model of PekatVisionSDK.Instance (src/src/PekatVisionSDK/instance.py): *)
(* the launch state machine of _start_instance, the analyze protocol with   *)
(* the response decoding of _response_to_result, and stop / ping / __del__. *)
(* The legacy module pekat_vision_instance.py is modelled by the variable   *)
(* legacy, and two concurrent shared-memory analyze calls by race.          *)
(*                                                                          *)
(* Conventions.  An Optional value is a sequence of length 0 (None) or 1    *)
(* (<<v>>).  Bytes are sequences of integers 0..255; text (header values)   *)
(* are sequences of one-character strings.                                  *)
(***************************************************************************)
EXTENDS Integers, Sequences, FiniteSets, TLC

VARIABLES
    already_running,     \* self.already_running
    port_is_defined,     \* self.port_is_defined
    wait_for_init_model, \* self.wait_for_init_model
    ping_arg,            \* the constructor's ping argument
    context_in_body,     \* self.context_in_body
    project_path,        \* "none" | "no_manifest" | "ok": what _check_project finds
    dist_path,           \* "ok" | "given_missing" | "not_found": what _get_dist_path finds
    is_local,            \* self._is_local
    port,                \* self.port
    process,             \* self.process: None or the index of the spawned child
    stop_key,            \* self.stop_key: None or the key generated for a spawn
    stopping,            \* self.__stopping
    server_running,      \* local of the running _start_instance frame
    stop_init_model,     \* local of the running _start_instance frame
    server_version,      \* cached_property server_version: None or the parsed version
    can_use_shm,         \* cached_property _can_use_shm: None or the cached flag
    pc,                  \* where the caller's thread of control is
    exc,                 \* the exception that ended construction, or "none"
    spawned,             \* history: number of Popen calls
    child,               \* history: the -port / -stop_key arguments of the last Popen
    childOut,            \* history: markers read so far from the current child
    childExited,         \* environment: the child has exited, its output read to the end
    stop_requests,       \* history: every GET /stop sent, as [port, key]
    version_answers,     \* history: number of GET /version the server answered
    version_text,        \* history: None or the text of the answer server_version parsed
    shm,                 \* self._shm: "open" | "closed"
    shm_name,            \* self._shm.name: the segments of the Instance are named 1, 2, ..
    shm_arr,             \* self._shm_arr: its shape and the size of an item of its dtype
    shm_buf,             \* the bytes the segment named shm_name holds
    replaced,            \* history: for each segment replaced, its state when it was
    shm_post,            \* history: None or the last shared-memory request, the segment
                         \* it names, and self._shm and self._shm_arr before the call
    signals,             \* history: what the client did to self.process besides reading it
    stoppers,            \* where each thread running stop() concurrently is
    serverUp,            \* environment: a server listens on host:port
    call,                \* the last caller operation: arguments, requests, outcome
    decoded_image,       \* None or the last Result.get_decoded_image: Result, codec, outcome
    cv2_calls,           \* history: the calls made into the image codec
    request,             \* None or the POST of the last caller operation: URL, body, arguments
    legacy,              \* an Instance of the legacy module pekat_vision_instance.py
    race                 \* self._shm, self._shm_arr and the segments while two threads
                         \* of control run _analyze_numpy_shm

config == <<already_running, port_is_defined, wait_for_init_model, ping_arg,
            context_in_body, project_path, dist_path, is_local>>

launch == <<process, stop_key, server_running, stop_init_model, spawned, child,
           childOut, childExited>>

caches == <<server_version, can_use_shm, version_answers, version_text>>

segment == <<shm_name, shm_arr, shm_buf, replaced, shm_post>>

resources == <<shm, signals, segment>>

codec == <<decoded_image, cv2_calls>>

vars == <<config, port, launch, stopping, caches, resources, stoppers, pc, exc,
          stop_requests, serverUp, call, codec, request, legacy, race>>

----------------------------------------------------------------------------
(* Bounds of the model. *)

MaxSpawns == 3       \* children spawned by one launch
MaxPort == 2         \* ports are 1..MaxPort
MaxImage == 2        \* length of the image part of a response body
MaxDecodes == 2      \* calls of get_decoded_image that reach the codec
MaxWidth == 2        \* a pixel array is one row of 0..MaxWidth pixels
MaxSegments == 3     \* shared-memory segments created by one Instance
MaxRequests == 2     \* requests in the log of a legacy Instance before ping stops

None == <<>>
Some(v) == <<v>>
IsNone(o) == o = <<>>
Get(o) == o[1]

Ports == 1..MaxPort

\* the threads of control that can run stop() at the same time: the caller's
\* code and a cleanup hook
Threads == {"caller", "hook"}

----------------------------------------------------------------------------
(* Python primitives used by the decoder, computed as the library computes  *)
(* them on the byte and character alphabets of the model.                   *)

Digits == <<"0", "1", "2", "3", "4", "5", "6", "7", "8", "9">>

DigitChars == {Digits[i] : i \in 1..10}

IsDigitChar(c) == c \in DigitChars

DigitVal(c) == (CHOOSE i \in 1..10 : Digits[i] = c) - 1

RECURSIVE DigitsValue(_, _)
\* the value of the decimal digits s, most significant first, after acc
DigitsValue(s, acc) ==
    IF s = <<>> THEN acc ELSE DigitsValue(Tail(s), 10 * acc + DigitVal(Head(s)))

\* int(str): [ok, v]; ok = FALSE is ValueError
PyInt(s) ==
    LET body == IF s # <<>> /\ Head(s) \in {"-", "+"} THEN Tail(s) ELSE s
        neg == s # <<>> /\ Head(s) = "-"
    IN IF body = <<>> \/ \E i \in 1..Len(body) : ~IsDigitChar(body[i])
       THEN [ok |-> FALSE, v |-> 0]
       ELSE [ok |-> TRUE,
             v |-> IF neg THEN 0 - DigitsValue(body, 0) ELSE DigitsValue(body, 0)]

\* the index Python's slice arithmetic clamps n to, for a sequence of length len
SliceIndex(n, len) ==
    IF n >= 0 THEN (IF n < len THEN n ELSE len)
    ELSE (IF len + n > 0 THEN len + n ELSE 0)

\* s[:n]
SliceTo(s, n) == SubSeq(s, 1, SliceIndex(n, Len(s)))

\* s[n:]
SliceFrom(s, n) == SubSeq(s, SliceIndex(n, Len(s)) + 1, Len(s))

(* JSON text over the byte alphabet of the model: digits, brackets, braces   *)
(* and the comma.  Over this alphabet the JSON values are the non-negative   *)
(* integers, arrays and the empty object; a value is <<kind, payload>>.      *)
\* ord() of the characters of the byte alphabet
Ord == [c \in {"[", "]", "{", "}", ",", "0", "9", "x89"} |->
           CASE c = "[" -> 91 [] c = "]" -> 93 [] c = "{" -> 123 [] c = "}" -> 125
             [] c = "," -> 44 [] c = "0" -> 48 [] c = "9" -> 57 [] c = "x89" -> 137]

LBracket == Ord["["]
RBracket == Ord["]"]
LBrace == Ord["{"]
RBrace == Ord["}"]
Comma == Ord[","]
Zero == Ord["0"]
Nine == Ord["9"]

IsDigitByte(b) == b >= Zero /\ b <= Nine

JFail == [ok |-> FALSE, val |-> <<"err">>, next |-> 0]

RECURSIVE JNumber(_, _, _)
\* the digits of s from position i on, accumulated into acc
JNumber(s, i, acc) ==
    IF i <= Len(s) /\ IsDigitByte(s[i])
    THEN JNumber(s, i + 1, 10 * acc + (s[i] - Zero))
    ELSE [ok |-> TRUE, val |-> <<"num", acc>>, next |-> i]

RECURSIVE JValue(_, _)
RECURSIVE JElements(_, _, _)

\* json's scanner: one value of s starting at position i
JValue(s, i) ==
    IF i > Len(s) THEN JFail
    ELSE IF s[i] = Zero THEN [ok |-> TRUE, val |-> <<"num", 0>>, next |-> i + 1]
    ELSE IF IsDigitByte(s[i]) THEN JNumber(s, i, 0)
    ELSE IF s[i] = LBrace
         THEN IF i + 1 <= Len(s) /\ s[i + 1] = RBrace
              THEN [ok |-> TRUE, val |-> <<"obj", <<>>>>, next |-> i + 2]
              ELSE JFail
    ELSE IF s[i] = LBracket
         THEN IF i + 1 <= Len(s) /\ s[i + 1] = RBracket
              THEN [ok |-> TRUE, val |-> <<"arr", <<>>>>, next |-> i + 2]
              ELSE JElements(s, i + 1, <<>>)
    ELSE JFail

\* the elements of an array after its opening bracket, acc holding those read
JElements(s, i, acc) ==
    LET e == JValue(s, i)
    IN IF ~e.ok THEN JFail
       ELSE IF e.next > Len(s) THEN JFail
       ELSE IF s[e.next] = RBracket
            THEN [ok |-> TRUE, val |-> <<"arr", Append(acc, e.val)>>,
                  next |-> e.next + 1]
       ELSE IF s[e.next] = Comma THEN JElements(s, e.next + 1, Append(acc, e.val))
       ELSE JFail

IsAscii(s) == \A i \in 1..Len(s) : s[i] < 128

\* json.loads of bytes: [exc, val]; exc = "none" when the text parses
JsonLoads(s) ==
    IF ~IsAscii(s) THEN [exc |-> "UnicodeDecodeError", val |-> <<"err">>]
    ELSE LET r == JValue(s, 1)
         IN IF r.ok /\ r.next = Len(s) + 1
            THEN [exc |-> "none", val |-> r.val]
            ELSE [exc |-> "JSONDecodeError", val |-> <<"err">>]

\* response.json(): undecodable bytes end in the JSON error as well
ResponseJson(s) ==
    IF ~IsAscii(s) THEN [exc |-> "JSONDecodeError", val |-> <<"err">>]
    ELSE JsonLoads(s)

(* base64.b64decode of a header value.                                       *)
B64Alphabet ==
    <<"A", "B", "C", "D", "E", "F", "G", "H", "I", "J", "K", "L", "M",
      "N", "O", "P", "Q", "R", "S", "T", "U", "V", "W", "X", "Y", "Z",
      "a", "b", "c", "d", "e", "f", "g", "h", "i", "j", "k", "l", "m",
      "n", "o", "p", "q", "r", "s", "t", "u", "v", "w", "x", "y", "z",
      "0", "1", "2", "3", "4", "5", "6", "7", "8", "9", "+", "/">>

B64Chars == {B64Alphabet[i] : i \in 1..64}

IsB64Char(c) == c \in B64Chars

B64Val(c) == (CHOOSE i \in 1..64 : B64Alphabet[i] = c) - 1

RECURSIVE B64Data(_)
\* the data characters of s before its first padding character
B64Data(s) ==
    IF s = <<>> \/ Head(s) = "=" THEN <<>>
    ELSE IF IsB64Char(Head(s)) THEN <<Head(s)>> \o B64Data(Tail(s))
    ELSE B64Data(Tail(s))

RECURSIVE B64Pads(_)
\* the number of padding characters of s
B64Pads(s) ==
    IF s = <<>> THEN 0
    ELSE (IF Head(s) = "=" THEN 1 ELSE 0) + B64Pads(Tail(s))

RECURSIVE B64Bytes(_)
\* the bytes of the data characters d, four characters to three bytes
B64Bytes(d) ==
    IF Len(d) < 2 THEN <<>>
    ELSE LET a == B64Val(d[1])
             b == B64Val(d[2])
             c == IF Len(d) >= 3 THEN B64Val(d[3]) ELSE 0
             e == IF Len(d) >= 4 THEN B64Val(d[4]) ELSE 0
             b1 == a * 4 + (b \div 16)
             b2 == (b % 16) * 16 + (c \div 4)
             b3 == (c % 4) * 64 + e
         IN IF Len(d) = 2 THEN <<b1>>
            ELSE IF Len(d) = 3 THEN <<b1, b2>>
            ELSE <<b1, b2, b3>> \o B64Bytes(SubSeq(d, 5, Len(d)))

\* base64.b64decode(s): [exc, bytes]
B64Decode(s) ==
    LET d == B64Data(s)
        r == Len(d) % 4
        need == IF r = 2 THEN 2 ELSE IF r = 3 THEN 1 ELSE 0
    IN IF r = 1 \/ B64Pads(s) < need
       THEN [exc |-> "binascii.Error", bytes |-> <<>>]
       ELSE [exc |-> "none", bytes |-> B64Bytes(d)]

----------------------------------------------------------------------------
(* Result and _response_to_result. *)

\* Result(image_bytes, context): a returned value
Result(image_bytes, context) ==
    [exc |-> "none", image_bytes |-> image_bytes, context |-> context]

\* an exception leaving the decoder
Raised(e) == [exc |-> e, image_bytes |-> None, context |-> <<"err">>]

\* Result(image_bytes, parsed) where parsed is the outcome of a JSON parse
ResultOf(image_bytes, parsed) ==
    IF parsed.exc = "none" THEN Result(image_bytes, parsed.val) ELSE Raised(parsed.exc)

\* a mutant of IsContextOnly: the shortcut of lines 306-307 is never taken
IsContextOnly_Never(response_type) == FALSE

\* line 306: the response carries the context alone
IsContextOnly(response_type) == response_type = "context"

\* line 311, "not image_len_str": the header is absent or empty
ImageLenMissing(h) == IsNone(h) \/ Get(h) = <<>>

\* a mutant of ContextHeaderMissing: an empty header counts as absent
ContextHeaderMissing_Falsy(h) == IsNone(h) \/ Get(h) = <<>>

\* line 319, "context_base64 is None"
ContextHeaderMissing(h) == IsNone(h)

\* a mutant of BodySplit: the context starts one byte late
BodySplit_OffByOne(content, image_len) ==
    [image |-> SliceTo(content, image_len),
     context |-> SliceFrom(content, image_len + 1)]

\* lines 314-315: content[:image_len] and content[image_len:]
BodySplit(content, image_len) ==
    [image |-> SliceTo(content, image_len), context |-> SliceFrom(content, image_len)]

\* Instance._response_to_result, cib being self.context_in_body
ResponseToResult(response, response_type, cib) ==
    IF IsContextOnly(response_type)
    THEN ResultOf(None, ResponseJson(response.content))
    ELSE IF cib
    THEN IF ImageLenMissing(response.ImageLen)
         THEN ResultOf(None, ResponseJson(response.content))
         ELSE LET n == PyInt(Get(response.ImageLen))
                  parts == BodySplit(response.content, n.v)
              IN IF ~n.ok THEN Raised("ValueError")
                 ELSE IF ~IsAscii(parts.context) THEN Raised("UnicodeDecodeError")
                 ELSE ResultOf(Some(parts.image), JsonLoads(parts.context))
    ELSE IF ContextHeaderMissing(response.ContextBase64utf)
         THEN ResultOf(None, ResponseJson(response.content))
         ELSE LET d == B64Decode(Get(response.ContextBase64utf))
              IN IF d.exc # "none" THEN Raised(d.exc)
                 ELSE ResultOf(Some(response.content), JsonLoads(d.bytes))

----------------------------------------------------------------------------
(* Inputs: what the caller passes and what the environment answers. *)

ALLOWED_RESPONSE_TYPES == {"context", "image", "annotated_image", "heatmap"}

\* response_type arguments: the allowed ones and one that is not
ResponseTypeArgs == ALLOWED_RESPONSE_TYPES \cup {"bogus"}

\* image arguments, by what analyze's isinstance dispatch sees
ImageArgs == {"path", "bytes", "ndarray", "int", "bytearray"}

\* markers a line of the child's output can hold (substring tests, lines 268-275)
SERVER_RUNNING == "__SERVER_RUNNING__"
STOP_INIT_MODEL == "STOP_INIT_MODEL"
ADDR_IN_USE == "OSError: [Errno 48] Address already in use"
Markers == {SERVER_RUNNING, STOP_INIT_MODEL, ADDR_IN_USE}

\* what a request can end in: a response, or one of the errors of requests:
\* ReadTimeout is a Timeout, ConnectTimeout is a Timeout and a ConnectionError.
\* Without a listening server no connection is made, so nothing is read.
TransportOutcomes ==
    IF serverUp THEN {"ok", "ReadTimeout", "ConnectTimeout", "ConnectionError"}
    ELSE {"ConnectTimeout", "ConnectionError"}

\* isinstance(e, requests.exceptions.Timeout)
IsTimeout(o) == o \in {"ReadTimeout", "ConnectTimeout"}

\* isinstance(e, requests.exceptions.ConnectionError)
IsConnectionError(o) == o \in {"ConnectionError", "ConnectTimeout"}

\* texts GET /version can answer, as sequences of characters
Ver_3_18_0 == <<"3", ".", "1", "8", ".", "0">>
Ver_3_17_9 == <<"3", ".", "1", "7", ".", "9">>
Ver_3_9_0 == <<"3", ".", "9", ".", "0">>
Ver_4_0 == <<"4", ".", "0">>
Ver_v3_18_0 == <<"v">> \o Ver_3_18_0
Ver_3_18_0rc1 == Ver_3_18_0 \o <<"r", "c", "1">>
Ver_3_18_0nl == Ver_3_18_0 \o <<"\n">>
Ver_empty == <<>>
InvalidVersionText == <<"x">>

VersionTexts ==
    {Ver_3_18_0, Ver_3_17_9, Ver_3_9_0, Ver_4_0, Ver_v3_18_0, Ver_3_18_0rc1,
     Ver_3_18_0nl, Ver_empty, InvalidVersionText}

\* the texts a server answers with in the lifecycle specification
LiveVersionTexts == {Ver_3_18_0, InvalidVersionText}

\* characters of a text, as a sequence of one-character strings
Txt_0 == <<"0">>
Txt_1 == <<"1">>
Txt_2 == <<"2">>
Txt_3 == <<"3">>
Txt_4 == <<"4">>
Txt_m1 == <<"-", "1">>
Txt_x == <<"x">>

B64_obj == <<"e", "3", "0", "=">>         \* base64 of {}
B64_arr1 == <<"W", "z", "F", "d">>        \* base64 of [1]
B64_badpad == <<"e", "3", "0">>           \* {} with its padding missing
B64_bin == <<"i", "Q", "=", "=">>         \* base64 of the byte 0x89

J_obj == <<LBrace, RBrace>>                          \* {}
J_arr1 == <<LBracket, Zero + 1, RBracket>>           \* [1]
J_one == <<Zero + 1>>                                \* 1
J_ten == <<Zero + 1, Zero>>                          \* 10
J_bad == <<RBracket>>                                \* ]

\* the first byte of a PNG file, not valid UTF-8 on its own
PngByte == Ord["x89"]

\* bytes an encoded image is drawn from: a binary byte and two that read as JSON
ImageAlphabet == {PngByte, Zero + 1, LBracket}

RECURSIVE SeqsUpTo(_, _)
\* the sequences over S of length at most n
SeqsUpTo(S, n) ==
    IF n = 0 THEN {<<>>}
    ELSE LET shorter == SeqsUpTo(S, n - 1)
         IN shorter \cup {Append(s, x) : s \in shorter, x \in S}

Images == SeqsUpTo(ImageAlphabet, MaxImage)

JsonTexts == {<<>>, J_obj, J_arr1, J_one, J_ten, J_bad}

ImageLenValues ==
    {None, Some(<<>>), Some(Txt_0), Some(Txt_1), Some(Txt_2), Some(Txt_3),
     Some(Txt_4), Some(Txt_m1), Some(Txt_x)}

ContextBase64Values ==
    {None, Some(<<>>), Some(B64_obj), Some(B64_arr1), Some(B64_badpad),
     Some(B64_bin)}

\* a response of the server: body and the two headers the decoder reads
Response(content, image_len, context_b64) ==
    [content |-> content, ImageLen |-> image_len, ContextBase64utf |-> context_b64]

\* every response the decoder is checked on
Responses ==
    {Response(img \o txt, il, cb) :
        img \in Images, txt \in JsonTexts, il \in ImageLenValues,
        cb \in ContextBase64Values}

\* the response a live server answers with outside the decoding specification
LiveResponses == {Response(<<PngByte>> \o J_obj, Some(Txt_1), Some(B64_obj))}

\* a response that is not received
NoResponse == Response(<<>>, None, None)

\* what a server answers GET /ping with
PingResponses == {Response(<<>>, None, None), Response(J_obj, None, None)}

----------------------------------------------------------------------------
(* The record of a caller operation. *)

\* an operation that returned None (or a response the model does not look into)
Returned == [exc |-> "none", image_bytes |-> None, context |-> <<"void">>]

\* reqs are the requests the operation sent, outcomes what each of them ended in
Call(op, image, response_type, reqs, outcomes, response, result) ==
    [op |-> op, image |-> image, response_type |-> response_type, reqs |-> reqs,
     outcomes |-> outcomes, response |-> response, result |-> result]

NoCall == Call("none", "none", "none", <<>>, <<>>, None, Returned)

\* a mutant of GetResult: every error of the transport becomes NoConnectionError
GetResult_AllNoConnection(o) ==
    IF o = "ok" THEN Returned ELSE Raised("NoConnectionError")

\* what a GET that maps Timeout to NoConnectionError ends in (stop, ping)
GetResult(o) ==
    IF o = "ok" THEN Returned
    ELSE IF IsTimeout(o) THEN Raised("NoConnectionError")
    ELSE Raised(o)

\* an operation that returned the response r of the server
ReturnedResponse(r) ==
    [exc |-> "none", image_bytes |-> None, context |-> <<"response", r>>]

\* what ping gives its caller (lines 539-545), the server answering r
PingResult(o, r) == IF o = "ok" THEN ReturnedResponse(r) ELSE GetResult(o)

\* a mutant of PostError: analyze maps a timeout as ping and stop do
PostError_Mapped(o) ==
    IF IsTimeout(o) THEN Raised("NoConnectionError") ELSE Raised(o)

\* what a POST of analyze ends in before decoding: the transport's own error
PostError(o) == Raised(o)

----------------------------------------------------------------------------
(* Construction: __init__ lines 109-148 and _start_instance. *)

(* Pixel arrays and the shared-memory segment (lines 120-121, 351-388). *)

\* a numpy array of shape <<height, width>> whose items take itemsize bytes,
\* every pixel having the same value
Array(shape, itemsize, value) ==
    [shape |-> shape, itemsize |-> itemsize, value |-> value]

\* image.size, image.nbytes and the pixels in C order
Size(a) == a.shape[1] * a.shape[2]
NBytes(a) == Size(a) * a.itemsize
Pixels(a) == [i \in 1..Size(a) |-> a.value]

\* the assignment self._shm_arr[:] = image[:] casts each pixel to the dtype of
\* the array assigned to: an unsigned integer of itemsize bytes
Cast(pixels, itemsize) == [i \in 1..Len(pixels) |-> pixels[i] % (256 ^ itemsize)]

\* the bytes of an array of unsigned integers of itemsize bytes, little-endian
ToBytes(pixels, itemsize) ==
    [j \in 1..(Len(pixels) * itemsize) |->
        (pixels[((j - 1) \div itemsize) + 1] \div (256 ^ ((j - 1) % itemsize))) % 256]

\* image.tobytes()
ArrayBytes(a) == ToBytes(Pixels(a), a.itemsize)

\* uint8 and uint16, and values that fit them
ItemSizes == {1, 2}
PixelValues(itemsize) == IF itemsize = 1 THEN {1, 2} ELSE {1, 257}

\* shapes <<height, width>> of one row, the one without pixels included
Shapes == {<<1, w>> : w \in 0..MaxWidth}

Arrays ==
    UNION {{Array(s, k, v) : v \in (IF s[2] = 0 THEN {1} ELSE PixelValues(k))} :
              s \in Shapes, k \in ItemSizes}

\* one row of two uint8 pixels
LiveArrays == {Array(<<1, 2>>, 1, 1)}

\* the argument of an analyze that is given no array
NoArray == Array(<<1, 0>>, 1, 1)

\* lines 120-121: np.ndarray((1,), dtype=np.uint8) on a new segment of size 1
InitialShmArr == [shape |-> <<1>>, itemsize |-> 1]
InitialShmBuf == <<0>>

\* what lines 364-372 leave: the exception raised, if any, and self._shm,
\* self._shm_arr and the bytes of the segment
ShmState(e, state, name, arr, buf, rep) ==
    [exc |-> e, shm |-> state, name |-> name, arr |-> arr, buf |-> buf,
     replaced |-> rep]

\* the segment is left alone
NoShmSend == ShmState("none", shm, shm_name, shm_arr, shm_buf, replaced)

\* what a write through an array whose segment was closed can do: the buffer is
\* unmapped, the process is killed or the write lands outside the segment
DanglingOutcomes == {"SIGSEGV", "stray"}

\* lines 364-372 for image: on another shape the segment is closed and one of
\* image.nbytes bytes is created, which SharedMemory refuses for 0 bytes; then
\* the pixels are assigned into self._shm_arr
ShmSend(image, ub) ==
    IF shm_arr.shape # image.shape
    THEN IF NBytes(image) = 0
         THEN ShmState("ValueError", "closed", shm_name, shm_arr, shm_buf, replaced)
         ELSE ShmState("none", "open", shm_name + 1,
                       [shape |-> image.shape, itemsize |-> image.itemsize],
                       ArrayBytes(image), Append(replaced, "closed"))
    ELSE IF shm = "closed"
    THEN ShmState(IF ub = "SIGSEGV" THEN "SIGSEGV" ELSE "none", shm, shm_name,
                  shm_arr, shm_buf, replaced)
    ELSE ShmState("none", shm, shm_name, shm_arr,
                  ToBytes(Cast(Pixels(image), shm_arr.itemsize), shm_arr.itemsize),
                  replaced)

\* lines 374-386: the request, and the segment it names as the server finds it
ShmPost(image, w) ==
    [name |-> w.name, height |-> image.shape[1], width |-> image.shape[2],
     image |-> image, previous |-> shm_name, before |-> shm_arr.shape,
     buf |-> w.buf]

\* no Instance of the legacy module was constructed
NoLegacy ==
    [already_running |-> FALSE, ping |-> FALSE, pc |-> "unused", process |-> "undefined",
     stopping |-> "undefined", hook |-> FALSE, requests |-> <<>>, op |-> "none",
     exc |-> "none", init_exc |-> "none"]

\* the threads of control that call analyze concurrently
Analyzers == {"first", "second"}

\* a thread that has not called analyze: where it is, its image, the name its
\* URL carries, what the server found in the segment of that name, and whether
\* its call ran while another one was running
IdleAnalyzer ==
    [pc |-> "idle", image |-> NoArray, name |-> 0, got |-> None, released |-> FALSE,
     overlapped |-> FALSE]

\* lines 120-121 and no thread of control inside _analyze_numpy_shm: the name
\* of self._shm, self._shm_arr and the segment its buffer is, and for each
\* segment by name the bytes it holds and whether the client has it open
NoRace ==
    [shm |-> 1,
     arr |-> [shape |-> InitialShmArr.shape, itemsize |-> InitialShmArr.itemsize,
              seg |-> 1],
     segments |-> <<[buf |-> InitialShmBuf, open |-> TRUE]>>,
     threads |-> [t \in Analyzers |-> IdleAnalyzer]]

Init ==
    /\ already_running \in BOOLEAN
    /\ port_is_defined \in BOOLEAN
    /\ wait_for_init_model \in BOOLEAN
    /\ ping_arg \in BOOLEAN
    /\ context_in_body \in BOOLEAN
    /\ project_path \in {"none", "no_manifest", "ok"}
    /\ dist_path \in {"ok", "given_missing", "not_found"}
    \* the arguments __init__ ignores when already_running are left at defaults
    /\ already_running =>
          /\ project_path = "none"
          /\ dist_path = "ok"
          /\ ~wait_for_init_model
          /\ port_is_defined
    /\ is_local \in BOOLEAN
    /\ port \in Ports
    /\ process = None
    /\ stop_key = None
    /\ stopping = FALSE
    /\ server_running = FALSE
    /\ stop_init_model = FALSE
    /\ server_version = None
    /\ can_use_shm = None
    /\ pc = "construct"
    /\ exc = "none"
    /\ spawned = 0
    /\ child = None
    /\ childOut = {}
    /\ childExited = FALSE
    /\ stop_requests = <<>>
    /\ version_answers = 0
    /\ version_text = None
    /\ shm = "open"
    /\ shm_name = 1
    /\ shm_arr = InitialShmArr
    /\ shm_buf = InitialShmBuf
    /\ replaced = <<>>
    /\ shm_post = None
    /\ signals = <<>>
    /\ stoppers = [t \in Threads |-> "idle"]
    /\ serverUp \in (IF already_running THEN BOOLEAN ELSE {FALSE})
    /\ call = NoCall
    /\ decoded_image = None
    /\ cv2_calls = <<>>
    /\ request = None
    /\ legacy = NoLegacy
    /\ race = NoRace

\* Instance._get_dist_path: the error it raises, "none" when it returns a path
GetDistPathError ==
    IF dist_path = "given_missing" THEN "DistNotExistsError"
    ELSE IF dist_path = "not_found" THEN "DistNotFoundError"
    ELSE "none"

\* a mutant of StartError: the install directory is resolved before the project
\* is checked
StartError_DistFirst ==
    IF project_path = "none" THEN "ValueError"
    ELSE IF GetDistPathError # "none" THEN GetDistPathError
    ELSE IF project_path = "no_manifest" THEN "ProjectNotFoundError"
    ELSE "none"

\* the checks of _start_instance before anything is spawned (lines 218-223)
StartError ==
    IF project_path = "none" THEN "ValueError"
    ELSE IF project_path = "no_manifest" THEN "ProjectNotFoundError"
    ELSE GetDistPathError

\* a mutant of InitialServerRunning: the flag of the abandoned frame is kept
InitialServerRunning_Kept == server_running

\* line 255: server_running as a frame of _start_instance starts with it
InitialServerRunning == FALSE

\* line 254: stop_init_model as a frame of _start_instance starts with it
InitialStopInitModel == ~wait_for_init_model

\* a mutant of Spawn: the key generated for the first child is given to every
\* later one
Spawn_KeepKey(p) ==
    /\ stop_key' = IF IsNone(stop_key) THEN Some(spawned + 1) ELSE stop_key
    /\ process' = Some(spawned + 1)
    /\ spawned' = spawned + 1
    /\ child' = Some([port |-> p, stop_key |-> Get(stop_key')])
    /\ stop_init_model' = InitialStopInitModel
    /\ server_running' = InitialServerRunning
    /\ childOut' = {}
    /\ childExited' = FALSE

\* lines 225-255: a fresh stop key, Popen with -port p, and the frame's locals
Spawn(p) ==
    /\ stop_key' = Some(spawned + 1)
    /\ process' = Some(spawned + 1)
    /\ spawned' = spawned + 1
    /\ child' = Some([port |-> p, stop_key |-> spawned + 1])
    /\ stop_init_model' = InitialStopInitModel
    /\ server_running' = InitialServerRunning
    /\ childOut' = {}
    /\ childExited' = FALSE

\* a mutant of Attach: the test of already_running at line 144 is ignored and
\* a child is spawned for an attached Instance
Attach_Spawns ==
    /\ pc = "construct"
    /\ already_running
    /\ Spawn(port)
    /\ pc' = "polling"
    /\ UNCHANGED <<config, legacy, race,
                   codec, request, resources, stoppers, port, stopping, caches,
                   exc, stop_requests, serverUp, call>>

\* __init__ line 144 with already_running: nothing is started
Attach ==
    /\ pc = "construct"
    /\ already_running
    /\ pc' = "launched"
    /\ UNCHANGED <<config, legacy, race,
                   codec, request, resources, stoppers, port, launch, stopping, caches,
                   exc, stop_requests, serverUp, call>>

\* __init__ line 145: _start_instance up to its first readline
StartInstance ==
    /\ pc = "construct"
    /\ ~already_running
    /\ IF StartError # "none"
       THEN /\ pc' = "failed"
            /\ exc' = StartError
            /\ UNCHANGED launch
       ELSE /\ Spawn(port)
            /\ pc' = "polling"
            /\ exc' = exc
    /\ UNCHANGED <<config, legacy, race,
                   codec, request, resources, stoppers, port, stopping, caches,
                   stop_requests, serverUp, call>>

\* the readiness test of line 272, on the flags after the line was scanned
IsReady(sr, sim) == sr /\ sim

\* a mutant of ConflictIsFatal: a pinned port is retried like an ephemeral one
ConflictIsFatal_Never == FALSE

\* line 276: a bind conflict on a port the caller pinned ends the launch
ConflictIsFatal == port_is_defined

\* the child exits with all of its output read: readline returns "" from now on
ChildExits ==
    /\ pc = "polling"
    /\ ~childExited
    /\ childExited' = TRUE
    /\ UNCHANGED <<config, legacy, race,
                   codec, request, resources, stoppers, port, process, stop_key,
                   server_running, stop_init_model, spawned, child, childOut,
                   stopping, caches, pc, exc, stop_requests, serverUp, call>>

\* a mutant of EofOutcome: the loop's break is followed by a plain return
EofOutcome_Returns == [pc |-> "launched", exc |-> "none"]

\* lines 264-265 and 281: the loop breaks and PekatNotStartedError is raised
EofOutcome == [pc |-> "failed", exc |-> "PekatNotStartedError"]

\* one iteration of the polling loop on a line holding the markers in line; on
\* a conflict of an ephemeral port it runs into the recursive _start_instance,
\* whose checks of lines 218-223 pass as they did for the first frame
ReadLine(line) ==
    /\ pc = "polling"
    /\ ~childExited
    /\ LET sr == server_running \/ SERVER_RUNNING \in line
           sim == stop_init_model \/ STOP_INIT_MODEL \in line
       IN IF IsReady(sr, sim)
          THEN /\ pc' = "launched"
               /\ server_running' = sr
               /\ stop_init_model' = sim
               /\ childOut' = childOut \cup line
               /\ serverUp' = TRUE
               /\ UNCHANGED <<port, process, stop_key, spawned, child, exc,
                              childExited>>
          ELSE IF ADDR_IN_USE \in line
          THEN IF ConflictIsFatal
               THEN /\ pc' = "failed"
                    /\ exc' = "PortIsAllocatedError"
                    /\ server_running' = sr
                    /\ stop_init_model' = sim
                    /\ childOut' = childOut \cup line
                    /\ UNCHANGED <<port, process, stop_key, spawned, child, serverUp,
                                   childExited>>
               ELSE /\ spawned < MaxSpawns
                    /\ \E p \in Ports :
                          /\ port' = p
                          /\ Spawn(p)
                    /\ UNCHANGED <<pc, exc, serverUp>>
          ELSE /\ server_running' = sr
               /\ stop_init_model' = sim
               /\ childOut' = childOut \cup line
               /\ UNCHANGED <<pc, port, process, stop_key, spawned, child, exc,
                              serverUp, childExited>>
    /\ UNCHANGED <<config, legacy, race,
                   codec, request, resources, stoppers, stopping, caches, stop_requests,
                   call>>

\* a mutant of ReadEOF: the loop does not break when the child has exited
ReadEOF_Spins ==
    /\ pc = "polling"
    /\ childExited
    /\ UNCHANGED vars

\* lines 264-265 and 281: readline returns "" and the child has exited
ReadEOF ==
    /\ pc = "polling"
    /\ childExited
    /\ pc' = EofOutcome.pc
    /\ exc' = EofOutcome.exc
    /\ UNCHANGED <<config, legacy, race,
                   codec, request, resources, stoppers, port, launch, stopping, caches,
                   stop_requests, serverUp, call>>

\* __init__ line 147 with ping false: construction ends
ConstructNoPing ==
    /\ pc = "launched"
    /\ ~ping_arg
    /\ pc' = "idle"
    /\ UNCHANGED <<config, legacy, race,
                   codec, request, resources, stoppers, port, launch, stopping, caches,
                   exc, stop_requests, serverUp, call>>

\* __init__ lines 147-148: the construction-time ping, ending in o
ConstructPing(o) ==
    /\ pc = "launched"
    /\ ping_arg
    /\ call' = Call("__init__", "none", "none", <<"ping">>, <<o>>, None,
                     GetResult(o))
    /\ pc' = IF o = "ok" THEN "idle" ELSE "failed"
    /\ exc' = GetResult(o).exc
    /\ request' = None
    /\ UNCHANGED <<config, legacy, race,
                   codec, resources, stoppers, port, launch, stopping, caches,
                   stop_requests, serverUp>>

----------------------------------------------------------------------------
(* stop, ping and __del__. *)

\* a mutant of StopGuard: the __stopping test is missing
StopGuard_NoStoppingTest == IsNone(process) \/ IsNone(stop_key)

\* the guard of stop, line 514: TRUE when stop returns without a request
StopGuard == IsNone(process) \/ stopping \/ IsNone(stop_key)

\* a mutant of StopEscalation: a shutdown request that timed out is followed
\* by self.process.kill()
StopEscalation_KillOnTimeout(o) == IF IsTimeout(o) THEN <<"kill">> ELSE <<>>

\* lines 519-525: what stop does to self.process once the request ended in o;
\* the except clause only raises
StopEscalation(o) == <<>>

\* a mutant of StopBody: a shutdown request that failed clears the latch
StopBody_ResetOnFailure(o) ==
    IF StopGuard
    THEN UNCHANGED <<stopping, stop_requests, serverUp, signals>>
    ELSE /\ stopping' = (o = "ok")
         /\ stop_requests' =
                Append(stop_requests, [port |-> port, key |-> Get(stop_key)])
         /\ serverUp' = IF o = "ok" THEN FALSE ELSE serverUp
         /\ signals' = signals \o StopEscalation(o)

\* the body of stop (lines 514-525) with the request ending in o
StopBody(o) ==
    IF StopGuard
    THEN UNCHANGED <<stopping, stop_requests, serverUp, signals>>
    ELSE /\ stopping' = TRUE
         /\ stop_requests' =
                Append(stop_requests, [port |-> port, key |-> Get(stop_key)])
         /\ serverUp' = IF o = "ok" THEN FALSE ELSE serverUp
         /\ signals' = signals \o StopEscalation(o)

\* what stop gives its caller
StopResult(o) == IF StopGuard THEN Returned ELSE GetResult(o)

\* the requests stop sends, and what they end in
StopReqs == IF StopGuard THEN <<>> ELSE <<"stop">>
StopOutcomes(o) == IF StopGuard THEN <<>> ELSE <<o>>

\* Instance.stop called by the owner of a constructed Instance
Stop(o) ==
    /\ pc = "idle"
    /\ StopBody(o)
    /\ call' = Call("stop", "none", "none", StopReqs, StopOutcomes(o), None,
                    StopResult(o))
    /\ request' = None
    /\ UNCHANGED <<config, legacy, race,
                   codec, segment, shm, stoppers, port, launch, caches, pc, exc>>

\* Instance.ping called by the owner of a constructed Instance, the server, if
\* it answers, answering r
Ping(o, r) ==
    /\ pc = "idle"
    /\ call' = Call("ping", "none", "none", <<"ping">>, <<o>>,
                    IF o = "ok" THEN Some(r) ELSE None, PingResult(o, r))
    /\ request' = None
    /\ UNCHANGED <<config, legacy, race,
                   codec, resources, stoppers, port, launch, stopping, caches,
                   pc, exc, stop_requests, serverUp>>

\* ping with every outcome of its request
PingOp ==
    \E o \in TransportOutcomes :
        \E r \in (IF o = "ok" THEN PingResponses ELSE {NoResponse}) : Ping(o, r)

\* a mutant of DelCallsStop: __del__ only closes the segment
DelCallsStop_Never == FALSE

\* line 151: __del__ calls stop unless the Instance was attached to a server
DelCallsStop == ~already_running

\* lines 152-153: self._shm.close() runs when the statement before it returned
DelShm(result) == IF result.exc = "none" THEN "closed" ELSE shm

\* Instance.__del__: the Instance is released, constructed or not
Del(o) ==
    /\ pc \in {"idle", "failed"}
    /\ IF DelCallsStop
       THEN /\ StopBody(o)
            /\ call' = Call("__del__", "none", "none", StopReqs, StopOutcomes(o),
                            None, StopResult(o))
            /\ shm' = DelShm(StopResult(o))
       ELSE /\ UNCHANGED <<stopping, stop_requests, serverUp, signals>>
            /\ call' = Call("__del__", "none", "none", <<>>, <<>>, None, Returned)
            /\ shm' = DelShm(Returned)
    /\ pc' = "deleted"
    /\ request' = None
    /\ UNCHANGED <<config, legacy, race,
                   codec, segment, stoppers, port, launch, caches, exc>>

(* stop() run by two threads of control at once, one statement at a time.    *)

\* line 514: thread t evaluates the guard and returns or goes on
StopCheck(t) ==
    /\ pc = "idle"
    /\ stoppers[t] = "idle"
    /\ stoppers' = [stoppers EXCEPT ![t] = IF StopGuard THEN "done" ELSE "checked"]
    /\ UNCHANGED <<config, legacy, race,
                   codec, request, resources, port, launch, stopping, caches, pc, exc,
                   stop_requests, serverUp, call>>

\* line 517: thread t sets the latch
StopLatch(t) ==
    /\ stoppers[t] = "checked"
    /\ stopping' = TRUE
    /\ stoppers' = [stoppers EXCEPT ![t] = "latched"]
    /\ UNCHANGED <<config, legacy, race,
                   codec, request, resources, port, launch, caches, pc, exc,
                   stop_requests, serverUp, call>>

\* lines 519-525: thread t sends the shutdown request, which ends in o
StopSend(t, o) ==
    /\ stoppers[t] = "latched"
    /\ stop_requests' = Append(stop_requests, [port |-> port, key |-> Get(stop_key)])
    /\ serverUp' = IF o = "ok" THEN FALSE ELSE serverUp
    /\ signals' = signals \o StopEscalation(o)
    /\ stoppers' = [stoppers EXCEPT ![t] = "done"]
    /\ call' = Call("stop", "none", "none", <<"stop">>, <<o>>, None, GetResult(o))
    /\ request' = None
    /\ UNCHANGED <<config, legacy, race,
                   codec, segment, shm, port, launch, stopping, caches, pc, exc>>

----------------------------------------------------------------------------
(* analyze. *)

\* Version: the release numbers and None or the number of a release candidate
Version(release, pre) == [release |-> release, pre |-> pre]

IsSpace(c) == c \in {" ", "\n"}

RECURSIVE LStrip(_)
LStrip(s) == IF s # <<>> /\ IsSpace(Head(s)) THEN LStrip(Tail(s)) ELSE s

RECURSIVE RStrip(_)
RStrip(s) ==
    IF s # <<>> /\ IsSpace(s[Len(s)]) THEN RStrip(SubSeq(s, 1, Len(s) - 1)) ELSE s

RECURSIVE SplitOn(_, _, _)
\* the parts of s between the occurrences of sep, cur being the part read so far
SplitOn(s, sep, cur) ==
    IF s = <<>> THEN <<cur>>
    ELSE IF Head(s) = sep THEN <<cur>> \o SplitOn(Tail(s), sep, <<>>)
    ELSE SplitOn(Tail(s), sep, Append(cur, Head(s)))

RECURSIVE DigitRun(_)
\* the digits s starts with
DigitRun(s) ==
    IF s # <<>> /\ IsDigitChar(Head(s)) THEN <<Head(s)>> \o DigitRun(Tail(s)) ELSE <<>>

RECURSIVE ReleaseRun(_)
\* the digits and dots s starts with
ReleaseRun(s) ==
    IF s # <<>> /\ (IsDigitChar(Head(s)) \/ Head(s) = ".")
    THEN <<Head(s)>> \o ReleaseRun(Tail(s)) ELSE <<>>

\* packaging's version pattern on the texts of the model: surrounding space,
\* an optional v, dotted numbers, an optional rcN; [ok, v]
MatchVersion(text) ==
    LET t == RStrip(LStrip(text))
        body == IF t # <<>> /\ Head(t) = "v" THEN Tail(t) ELSE t
        rel == ReleaseRun(body)
        parts == SplitOn(rel, ".", <<>>)
        suffix == SubSeq(body, Len(rel) + 1, Len(body))
        isRc == Len(suffix) >= 2 /\ suffix[1] = "r" /\ suffix[2] = "c"
        rcNum == SubSeq(suffix, 3, Len(suffix))
    IN IF /\ rel # <<>>
          /\ \A i \in 1..Len(parts) : parts[i] # <<>>
          /\ suffix = <<>> \/ (isRc /\ DigitRun(rcNum) = rcNum)
       THEN [ok |-> TRUE,
             v |-> Version([i \in 1..Len(parts) |-> DigitsValue(parts[i], 0)],
                           IF suffix = <<>> THEN None
                           ELSE Some(DigitsValue(rcNum, 0)))]
       ELSE [ok |-> FALSE, v |-> Version(<<>>, None)]

\* Version("0.0.0"), the fallback of line 166
Version_0_0_0 == Version(<<0, 0, 0>>, None)

\* version.parse(response.text) with the InvalidVersion fallback of lines 163-166
ParseVersion(text) ==
    LET m == MatchVersion(text)
    IN IF m.ok THEN m.v ELSE Version_0_0_0

\* the threshold of line 171, version.parse("3.18.0")
MinShmVersion == Version(<<3, 18, 0>>, None)

\* what reading server_version ends in: the outcome of GET /version, the text
\* of the answer and the version lines 163-166 make of it
VersionQuery(o, text) ==
    [outcome |-> o, text |-> text,
     version |-> IF o = "ok" THEN ParseVersion(text) ELSE Version_0_0_0]

\* a version query that is not sent
NoVersionQuery == VersionQuery("unsent", InvalidVersionText)

\* what the version query can end in, the server answering with one of texts
VersionOutcomes(texts) ==
    {VersionQuery(o, InvalidVersionText) : o \in TransportOutcomes \ {"ok"}}
    \cup (IF serverUp THEN {VersionQuery("ok", t) : t \in texts} ELSE {})

RECURSIVE ReleaseCmp(_, _)
\* the order of two releases, the shorter one padded with zeros: -1, 0 or 1
ReleaseCmp(a, b) ==
    IF a = <<>> /\ b = <<>> THEN 0
    ELSE LET x == IF a = <<>> THEN 0 ELSE Head(a)
             y == IF b = <<>> THEN 0 ELSE Head(b)
         IN IF x > y THEN 1
            ELSE IF x < y THEN 0 - 1
            ELSE ReleaseCmp(IF a = <<>> THEN a ELSE Tail(a),
                            IF b = <<>> THEN b ELSE Tail(b))

\* a mutant of VersionGE: the threshold itself is not enough
VersionGE_Strict(a, b) ==
    LET c == ReleaseCmp(a.release, b.release)
    IN \/ c = 1
       \/ c = 0 /\ IsNone(a.pre) /\ ~IsNone(b.pre)
       \/ c = 0 /\ ~IsNone(a.pre) /\ ~IsNone(b.pre) /\ Get(a.pre) > Get(b.pre)

\* Version.__ge__: by release, a release candidate before its final release
VersionGE(a, b) ==
    LET c == ReleaseCmp(a.release, b.release)
    IN \/ c = 1
       \/ c = 0 /\ IsNone(a.pre)
       \/ c = 0 /\ ~IsNone(a.pre) /\ ~IsNone(b.pre) /\ Get(a.pre) >= Get(b.pre)

ShmEval(e, flag, queried, version, cached) ==
    [exc |-> e, flag |-> flag, queried |-> queried, version |-> version,
     shm |-> cached]

\* _can_use_shm is not evaluated: the caches stay as they are
NoShmEval == ShmEval("none", FALSE, FALSE, server_version, can_use_shm)

\* a mutant of CanUseShm: the two properties are evaluated on every access
CanUseShm_NoCache(vq) ==
    IF ~is_local
    THEN ShmEval("none", FALSE, FALSE, server_version, Some(FALSE))
    ELSE IF vq.outcome # "ok"
    THEN ShmEval(vq.outcome, FALSE, TRUE, server_version, can_use_shm)
    ELSE LET v == vq.version
             f == VersionGE(v, MinShmVersion)
         IN ShmEval("none", f, TRUE, Some(v), Some(f))

\* the cached properties _can_use_shm and server_version (lines 155-171), the
\* version query, if one is sent, ending in vq
CanUseShm(vq) ==
    IF ~IsNone(can_use_shm)
    THEN ShmEval("none", Get(can_use_shm), FALSE, server_version, can_use_shm)
    ELSE IF ~is_local
    THEN ShmEval("none", FALSE, FALSE, server_version, Some(FALSE))
    ELSE IF ~IsNone(server_version)
    THEN LET f == VersionGE(Get(server_version), MinShmVersion)
         IN ShmEval("none", f, FALSE, server_version, Some(f))
    ELSE IF vq.outcome # "ok"
    THEN ShmEval(vq.outcome, FALSE, TRUE, None, None)
    ELSE LET v == vq.version
             f == VersionGE(v, MinShmVersion)
         IN ShmEval("none", f, TRUE, Some(v), Some(f))

Dispatched(e, endpoint, cu) == [exc |-> e, endpoint |-> endpoint, cu |-> cu]

\* the endpoint of an ndarray, once _can_use_shm was evaluated as cu
NumpyEndpoint(cu) ==
    IF cu.exc # "none" THEN Dispatched(cu.exc, "none", cu)
    ELSE IF cu.flag THEN Dispatched("none", "analyze_image_shared_memory", cu)
    ELSE Dispatched("none", "analyze_raw_image", cu)

\* a mutant of Dispatch: the image type is dispatched on before the response
\* type is validated, as the legacy analyze orders its checks
Dispatch_TypeFirst(image, response_type, vq) ==
    IF image \notin {"path", "bytes", "ndarray"}
    THEN Dispatched("InvalidDataTypeError", "none", NoShmEval)
    ELSE IF response_type \notin ALLOWED_RESPONSE_TYPES
    THEN Dispatched("InvalidResponseTypeError", "none", NoShmEval)
    ELSE IF image \in {"path", "bytes"}
    THEN Dispatched("none", "analyze_image", NoShmEval)
    ELSE NumpyEndpoint(CanUseShm(vq))

\* a mutant of Dispatch: _can_use_shm is evaluated ahead of the isinstance tests
Dispatch_ShmFirst(image, response_type, vq) ==
    IF response_type \notin ALLOWED_RESPONSE_TYPES
    THEN Dispatched("InvalidResponseTypeError", "none", NoShmEval)
    ELSE LET cu == CanUseShm(vq)
         IN IF cu.exc # "none" THEN Dispatched(cu.exc, "none", cu)
            ELSE IF image \in {"path", "bytes"}
            THEN Dispatched("none", "analyze_image", cu)
            ELSE IF image = "ndarray" THEN NumpyEndpoint(cu)
            ELSE Dispatched("InvalidDataTypeError", "none", cu)

\* a mutant of Dispatch: an Instance that was stopped refuses to analyze
Dispatch_RefuseWhenStopping(image, response_type, vq) ==
    IF response_type \notin ALLOWED_RESPONSE_TYPES
    THEN Dispatched("InvalidResponseTypeError", "none", NoShmEval)
    ELSE IF stopping
    THEN Dispatched("NoConnectionError", "none", NoShmEval)
    ELSE IF image \in {"path", "bytes"}
    THEN Dispatched("none", "analyze_image", NoShmEval)
    ELSE IF image = "ndarray"
    THEN NumpyEndpoint(CanUseShm(vq))
    ELSE Dispatched("InvalidDataTypeError", "none", NoShmEval)

\* analyze lines 457-469: validation and the choice of the transport
Dispatch(image, response_type, vq) ==
    IF response_type \notin ALLOWED_RESPONSE_TYPES
    THEN Dispatched("InvalidResponseTypeError", "none", NoShmEval)
    ELSE IF image \in {"path", "bytes"}
    THEN Dispatched("none", "analyze_image", NoShmEval)
    ELSE IF image = "ndarray"
    THEN NumpyEndpoint(CanUseShm(vq))
    ELSE Dispatched("InvalidDataTypeError", "none", NoShmEval)

(* The request of an analyze (lines 283-299, 325-411). *)

\* a keyword argument of _construct_url: None, a str or an int
NoneValue == <<"none">>
StrValue(t) == <<"str", t>>
IntValue(n) == <<"int", n>>

\* f"{value}"
Format(v) ==
    IF v[1] = "none" THEN "None"
    ELSE IF v[1] = "str" THEN v[2]
    ELSE ToString(v[2])

\* the keyword argument data=data of the callers of _construct_url
DataValue(data) == IF IsNone(data) THEN NoneValue ELSE StrValue(Get(data))

\* the data arguments of analyze: the default None and a string
DataArgs == {None, Some("test")}

\* the encoded image an analyze of bytes is given, or the file of a path holds
EncodedImage == <<PngByte>>

\* a mutant of ConstructUrl: the marker of the mode is never added
ConstructUrl_NoMarker(path, response_type, kwargs) ==
    [port |-> port, path |-> path,
     query |-> <<<<"response_type", response_type>>>>
                 \o [i \in 1..Len(kwargs) |->
                        <<kwargs[i][1], Format(kwargs[i][2])>>]]

\* Instance._construct_url: the port and path of the URL and its query, a
\* sequence of <<key, value>> and of <<key>> for a key without a value
ConstructUrl(path, response_type, kwargs) ==
    [port |-> port, path |-> path,
     query |-> <<<<"response_type", response_type>>>>
                 \o [i \in 1..Len(kwargs) |->
                        <<kwargs[i][1], Format(kwargs[i][2])>>]
                 \o (IF context_in_body THEN <<<<"context_in_body">>>> ELSE <<>>)]

\* height, width = image.shape[:2] as keyword arguments
HeightWidth(array) ==
    <<<<"height", IntValue(array.shape[1])>>, <<"width", IntValue(array.shape[2])>>>>

\* the POST of _analyze_bytes, _analyze_numpy and _analyze_numpy_shm: its URL
\* and its body, None when session.post is given no data; name is
\* self._shm.name when the request is built
Request(endpoint, response_type, data, array, name) ==
    IF endpoint = "analyze_image"
    THEN [url |-> ConstructUrl(endpoint, response_type,
                               <<<<"data", DataValue(data)>>>>),
          body |-> Some(EncodedImage), data |-> data, array |-> array]
    ELSE IF endpoint = "analyze_raw_image"
    THEN [url |-> ConstructUrl(endpoint, response_type,
                               <<<<"data", DataValue(data)>>>> \o HeightWidth(array)),
          body |-> Some(ArrayBytes(array)), data |-> data, array |-> array]
    ELSE [url |-> ConstructUrl(endpoint, response_type,
                               <<<<"data", DataValue(data)>>>> \o HeightWidth(array)
                                   \o <<<<"name", IntValue(name)>>>>),
          body |-> None, data |-> data, array |-> array]

\* Instance.analyze(image, response_type): the version query, if sent, ends in
\* vq, the POST, if sent, ends in o, and the server, if it answers, answers
\* response; array is the image when it is an ndarray, and ub what a write
\* through a closed segment does; data is the data argument
Analyze(image, response_type, vq, o, response, array, ub, data) ==
    /\ pc = "idle"
    /\ LET d == Dispatch(image, response_type, vq)
           vreqs == IF d.cu.queried THEN <<"version">> ELSE <<>>
           vouts == IF d.cu.queried THEN <<vq.outcome>> ELSE <<>>
           w == IF d.endpoint = "analyze_image_shared_memory"
                THEN ShmSend(array, ub) ELSE NoShmSend
       IN /\ server_version' = d.cu.version
          /\ version_text' =
               IF d.cu.queried /\ vq.outcome = "ok" THEN Some(vq.text)
               ELSE version_text
          /\ can_use_shm' = d.cu.shm
          /\ version_answers' =
               IF d.cu.queried /\ vq.outcome = "ok" THEN version_answers + 1
               ELSE version_answers
          /\ w.name <= MaxSegments
          /\ shm' = w.shm
          /\ shm_name' = w.name
          /\ shm_arr' = w.arr
          /\ shm_buf' = w.buf
          /\ replaced' = w.replaced
          /\ shm_post' =
               IF d.endpoint = "analyze_image_shared_memory" /\ w.exc = "none"
               THEN Some(ShmPost(array, w)) ELSE shm_post
          /\ pc' = IF w.exc = "SIGSEGV" THEN "crashed" ELSE pc
          /\ request' =
               IF d.exc = "none" /\ w.exc = "none"
               THEN Some(Request(d.endpoint, response_type, data, array, w.name))
               ELSE None
          /\ call' =
               IF d.exc # "none"
               THEN Call("analyze", image, response_type, vreqs, vouts, None,
                         Raised(d.exc))
               ELSE IF w.exc # "none"
               THEN Call("analyze", image, response_type, vreqs, vouts, None,
                         Raised(w.exc))
               ELSE IF o # "ok"
               THEN Call("analyze", image, response_type,
                         Append(vreqs, d.endpoint), Append(vouts, o), None,
                         PostError(o))
               ELSE Call("analyze", image, response_type,
                         Append(vreqs, d.endpoint), Append(vouts, o), Some(response),
                         ResponseToResult(response, response_type, context_in_body))
    /\ UNCHANGED <<config, legacy, race,
                   codec, signals, stoppers, port, launch, stopping, exc,
                   stop_requests, serverUp>>

\* analyze raises before it posts the image
RaisesUnsent(image, response_type, vq, array, ub) ==
    LET d == Dispatch(image, response_type, vq)
    IN \/ d.exc # "none"
       \/ d.endpoint = "analyze_image_shared_memory" /\ ShmSend(array, ub).exc # "none"

\* analyze with arguments drawn from images, arrays, rts and datas, every
\* outcome of the requests it sends, and the answers of a server drawn from
\* texts and answers
AnalyzeOp(images, rts, texts, answers, arrays, datas) ==
    \E image \in images, response_type \in rts, data \in datas :
      \E vq \in (IF Dispatch(image, response_type, NoVersionQuery).cu.queried
                 THEN VersionOutcomes(texts) ELSE {NoVersionQuery}) :
        \E array \in (IF image = "ndarray" THEN arrays ELSE {NoArray}) :
          \E ub \in (IF /\ image = "ndarray"
                        /\ shm = "closed"
                        /\ shm_arr.shape = array.shape
                     THEN DanglingOutcomes ELSE {"none"}) :
            \E o \in (IF RaisesUnsent(image, response_type, vq, array, ub)
                      THEN {"unsent"} ELSE TransportOutcomes) :
              \E response \in (IF o = "ok" THEN answers ELSE {NoResponse}) :
                Analyze(image, response_type, vq, o, response, array, ub, data)

----------------------------------------------------------------------------
(* The lifecycle specification. *)

Next ==
    \/ Attach
    \/ StartInstance
    \/ \E line \in SUBSET Markers : ReadLine(line)
    \/ ChildExits
    \/ ReadEOF
    \/ ConstructNoPing
    \/ \E o \in TransportOutcomes : ConstructPing(o)
    \/ AnalyzeOp({"bytes", "ndarray", "int"}, {"image", "bogus"}, LiveVersionTexts,
                 LiveResponses, LiveArrays, {None})
    \/ PingOp
    \/ \E o \in TransportOutcomes : Stop(o)
    \/ \E o \in TransportOutcomes : Del(o)

Spec == Init /\ [][Next]_vars

----------------------------------------------------------------------------
(* The analyze specification: every operation of a constructed Instance that *)
(* is attached to a server, with every argument of analyze.                  *)

InitAnalyze ==
    /\ already_running = TRUE
    /\ port_is_defined = TRUE
    /\ wait_for_init_model = FALSE
    /\ ping_arg = FALSE
    /\ context_in_body \in BOOLEAN
    /\ project_path = "none"
    /\ dist_path = "ok"
    /\ is_local \in BOOLEAN
    /\ port \in Ports
    /\ process = None
    /\ stop_key = None
    /\ stopping = FALSE
    /\ server_running = FALSE
    /\ stop_init_model = FALSE
    /\ server_version = None
    /\ can_use_shm = None
    /\ pc = "idle"
    /\ exc = "none"
    /\ spawned = 0
    /\ child = None
    /\ childOut = {}
    /\ childExited = FALSE
    /\ stop_requests = <<>>
    /\ version_answers = 0
    /\ version_text = None
    /\ shm = "open"
    /\ shm_name = 1
    /\ shm_arr = InitialShmArr
    /\ shm_buf = InitialShmBuf
    /\ replaced = <<>>
    /\ shm_post = None
    /\ signals = <<>>
    /\ stoppers = [t \in Threads |-> "idle"]
    /\ serverUp \in BOOLEAN
    /\ call = NoCall
    /\ decoded_image = None
    /\ cv2_calls = <<>>
    /\ request = None
    /\ legacy = NoLegacy
    /\ race = NoRace

NextAnalyze ==
    \/ AnalyzeOp(ImageArgs, ResponseTypeArgs, VersionTexts, LiveResponses, LiveArrays,
                 {None})
    \/ PingOp
    \/ \E o \in TransportOutcomes : Stop(o)
    \/ \E o \in TransportOutcomes : Del(o)

SpecAnalyze == InitAnalyze /\ [][NextAnalyze]_vars

----------------------------------------------------------------------------
(* The request specification: the first analyze of an Instance attached to  *)
(* a running server, with every kind of image, every array and with and     *)
(* without the data argument; what is observed is the POST the call sends.  *)

RequestStep ==
    /\ call = NoCall
    /\ AnalyzeOp(ImageArgs, ALLOWED_RESPONSE_TYPES, {Ver_3_18_0, Ver_3_17_9},
                 LiveResponses, Arrays, DataArgs)

NextRequest ==
    \/ RequestStep
    \/ \E o \in TransportOutcomes : Del(o)

SpecRequest == InitAnalyze /\ [][NextRequest]_vars

----------------------------------------------------------------------------
(* The decoding specification: one analyze of encoded bytes on an Instance  *)
(* attached to a running server, the answer drawn from Responses.           *)

(* Result.get_decoded_image (result.py). *)

\* what get_decoded_image gives its caller: an exception, or what imdecode returned
Decoded(e, image) == [exc |-> e, image |-> image]

\* cv2.imdecode(np.frombuffer(image_bytes, np.uint8), cv2.IMREAD_COLOR): an
\* empty buffer is refused, a buffer that starts as an encoded image gives its
\* pixels, any other buffer gives None
ImDecode(buf) ==
    IF buf = <<>> THEN Decoded("cv2.error", None)
    ELSE IF buf[1] = PngByte THEN Decoded("none", Some(SliceFrom(buf, 1)))
    ELSE Decoded("none", None)

\* a mutant of GetDecodedImage: cv2 is imported before image_bytes is tested
GetDecodedImage_ImportFirst(result, cv2) ==
    IF ~cv2 THEN Decoded("OpenCVImportError", None)
    ELSE IF IsNone(result.image_bytes) THEN Decoded("ValueError", None)
    ELSE ImDecode(Get(result.image_bytes))

\* Result.get_decoded_image on result, cv2 telling whether import cv2 succeeds
GetDecodedImage(result, cv2) ==
    IF IsNone(result.image_bytes) THEN Decoded("ValueError", None)
    ELSE IF ~cv2 THEN Decoded("OpenCVImportError", None)
    ELSE ImDecode(Get(result.image_bytes))

\* line 37 is reached: the codec is called
ReachesCodec(result, cv2) == ~IsNone(result.image_bytes) /\ cv2

\* the owner of the Result of the last analyze calls get_decoded_image on it;
\* a Result is a NamedTuple, nothing assigns to its fields
GetDecodedImageCall(cv2) ==
    /\ call.op = "analyze"
    /\ call.result.exc = "none"
    /\ ReachesCodec(call.result, cv2) => Len(cv2_calls) < MaxDecodes
    /\ decoded_image' = Some([of |-> call.result, cv2 |-> cv2,
                              out |-> GetDecodedImage(call.result, cv2)])
    /\ cv2_calls' = IF ReachesCodec(call.result, cv2)
                    THEN Append(cv2_calls, "imdecode")
                    ELSE cv2_calls
    /\ UNCHANGED <<config, legacy, race,
                   request, resources, stoppers, port, launch, stopping,
                   caches, pc, exc, stop_requests, serverUp, call>>

InitDecode ==
    /\ already_running = TRUE
    /\ port_is_defined = TRUE
    /\ wait_for_init_model = FALSE
    /\ ping_arg = FALSE
    /\ context_in_body \in BOOLEAN
    /\ project_path = "none"
    /\ dist_path = "ok"
    /\ is_local = TRUE
    /\ port \in Ports
    /\ process = None
    /\ stop_key = None
    /\ stopping = FALSE
    /\ server_running = FALSE
    /\ stop_init_model = FALSE
    /\ server_version = None
    /\ can_use_shm = None
    /\ pc = "idle"
    /\ exc = "none"
    /\ spawned = 0
    /\ child = None
    /\ childOut = {}
    /\ childExited = FALSE
    /\ stop_requests = <<>>
    /\ version_answers = 0
    /\ version_text = None
    /\ shm = "open"
    /\ shm_name = 1
    /\ shm_arr = InitialShmArr
    /\ shm_buf = InitialShmBuf
    /\ replaced = <<>>
    /\ shm_post = None
    /\ signals = <<>>
    /\ stoppers = [t \in Threads |-> "idle"]
    /\ serverUp = TRUE
    /\ call = NoCall
    /\ decoded_image = None
    /\ cv2_calls = <<>>
    /\ request = None
    /\ legacy = NoLegacy
    /\ race = NoRace

\* the first analyze of the Instance, of encoded bytes, answered by the server
DecodeStep ==
    /\ call = NoCall
    /\ \E response_type \in ResponseTypeArgs, response \in Responses :
          Analyze("bytes", response_type, NoVersionQuery, "ok", response, NoArray,
                  "none", None)

NextDecode ==
    \/ DecodeStep
    \/ \E cv2 \in BOOLEAN : GetDecodedImageCall(cv2)

SpecDecode == InitDecode /\ [][NextDecode]_vars

----------------------------------------------------------------------------
(* The concurrent-stop specification: an Instance that started its server,  *)
(* constructed and idle, on which two threads of control run stop().        *)

InitStopRace ==
    /\ already_running = FALSE
    /\ port_is_defined \in BOOLEAN
    /\ wait_for_init_model \in BOOLEAN
    /\ ping_arg \in BOOLEAN
    /\ context_in_body \in BOOLEAN
    /\ project_path = "ok"
    /\ dist_path = "ok"
    /\ is_local \in BOOLEAN
    /\ port \in Ports
    /\ process = Some(1)
    /\ stop_key = Some(1)
    /\ stopping = FALSE
    /\ server_running = TRUE
    /\ stop_init_model = TRUE
    /\ server_version = None
    /\ can_use_shm = None
    /\ pc = "idle"
    /\ exc = "none"
    /\ spawned = 1
    /\ child = Some([port |-> port, stop_key |-> 1])
    /\ childOut = IF wait_for_init_model THEN {SERVER_RUNNING, STOP_INIT_MODEL}
                  ELSE {SERVER_RUNNING}
    /\ childExited = FALSE
    /\ stop_requests = <<>>
    /\ version_answers = 0
    /\ version_text = None
    /\ shm = "open"
    /\ shm_name = 1
    /\ shm_arr = InitialShmArr
    /\ shm_buf = InitialShmBuf
    /\ replaced = <<>>
    /\ shm_post = None
    /\ signals = <<>>
    /\ stoppers = [t \in Threads |-> "idle"]
    /\ serverUp = TRUE
    /\ call = NoCall
    /\ decoded_image = None
    /\ cv2_calls = <<>>
    /\ request = None
    /\ legacy = NoLegacy
    /\ race = NoRace

NextStopRace ==
    \/ \E t \in Threads : StopCheck(t)
    \/ \E t \in Threads : StopLatch(t)
    \/ \E t \in Threads : \E o \in TransportOutcomes : StopSend(t, o)

SpecStopRace == InitStopRace /\ [][NextStopRace]_vars

----------------------------------------------------------------------------
(* The shared-memory specification: a local Instance that started a server  *)
(* of a version that reads shared memory analyzes pixel arrays of every     *)
(* shape and is released.                                                    *)

InitShm ==
    /\ InitStopRace
    /\ is_local
    /\ port_is_defined
    /\ ~wait_for_init_model
    /\ ~ping_arg
    /\ ~context_in_body

NextShm ==
    \/ AnalyzeOp({"ndarray"}, {"context"}, {Ver_3_18_0}, LiveResponses, Arrays,
                 {None})
    \/ \E o \in TransportOutcomes : Del(o)

SpecShm == InitShm /\ [][NextShm]_vars

----------------------------------------------------------------------------
(* The launch specification: construction up to the end of _start_instance, *)
(* with a child that does not stay silent forever.                          *)

\* the child prints a line that completes readiness or reports a bind conflict
EmitsOutcome ==
    \E line \in SUBSET Markers :
        /\ \/ ADDR_IN_USE \in line
           \/ IsReady(server_running \/ SERVER_RUNNING \in line,
                      stop_init_model \/ STOP_INIT_MODEL \in line)
        /\ ReadLine(line)

NextLaunch ==
    \/ Attach
    \/ StartInstance
    \/ \E line \in SUBSET Markers : ReadLine(line)
    \/ ChildExits
    \/ ReadEOF

\* the child polled eventually completes readiness, reports a conflict or
\* exits, and the loop, which blocks in readline alone, takes its break once
\* readline returns "" with the child gone; a launch has at most MaxSpawns
\* children, so conflicts end
SpecLaunchFair ==
    /\ Init
    /\ [][NextLaunch]_vars
    /\ WF_vars(ChildExits \/ EmitsOutcome)
    /\ WF_vars(ReadEOF)

----------------------------------------------------------------------------
(* The legacy module pekat_vision_instance.py: construction, stop and the   *)
(* exit hook.  An attribute no statement has assigned yet is "undefined":   *)
(* reading it raises AttributeError.                                        *)

\* the variables of the model of instance.py
modern == <<config, port, launch, stopping, caches, resources, stoppers, pc, exc,
            stop_requests, serverUp, call, codec, request>>

\* an Instance that was attached to a running local server and is idle
Quiescent ==
    /\ already_running = TRUE
    /\ port_is_defined = TRUE
    /\ wait_for_init_model = FALSE
    /\ ping_arg = FALSE
    /\ context_in_body = FALSE
    /\ project_path = "none"
    /\ dist_path = "ok"
    /\ is_local = TRUE
    /\ port = 1
    /\ process = None
    /\ stop_key = None
    /\ stopping = FALSE
    /\ server_running = FALSE
    /\ stop_init_model = FALSE
    /\ pc = "idle"
    /\ exc = "none"
    /\ spawned = 0
    /\ child = None
    /\ childOut = {}
    /\ childExited = FALSE
    /\ stop_requests = <<>>
    /\ shm = "open"
    /\ shm_name = 1
    /\ shm_arr = InitialShmArr
    /\ shm_buf = InitialShmBuf
    /\ replaced = <<>>
    /\ shm_post = None
    /\ signals = <<>>
    /\ stoppers = [t \in Threads |-> "idle"]
    /\ serverUp = TRUE
    /\ call = NoCall
    /\ decoded_image = None
    /\ cv2_calls = <<>>
    /\ request = None

\* the cached properties were never evaluated
NoCaches ==
    /\ server_version = None
    /\ can_use_shm = None
    /\ version_answers = 0
    /\ version_text = None

\* what a requests.get of the legacy module ends in
LegacyOutcomes == {"ok", "ReadTimeout", "ConnectTimeout", "ConnectionError"}

\* what __start_instance ends in: it returns at readiness or raises
LegacyStartOutcomes ==
    {"ready", "ProjectNotFound", "DistNotFound", "PortIsAllocated", "PekatNotStarted"}

\* __start_instance lines 261-265 raise before self.process is assigned at 294
LegacyRaisesBeforePopen(outcome) == outcome \in {"ProjectNotFound", "DistNotFound"}

\* the constructor call: Instance(already_running=.., ping=..)
LegacyConstruct(ar, ping) ==
    [NoLegacy EXCEPT !.already_running = ar, !.ping = ping, !.pc = "construct"]

\* __init__ lines 146-148: with already_running nothing is started; otherwise
\* __start_instance runs and, when it returned, the exit hook is registered
LegacyStart(outcome) ==
    /\ legacy.pc = "construct"
    /\ legacy' =
         IF legacy.already_running
         THEN [legacy EXCEPT !.pc = "started"]
         ELSE IF outcome = "ready"
         THEN [legacy EXCEPT !.pc = "started", !.process = "set", !.hook = TRUE]
         ELSE [legacy EXCEPT !.pc = "failed",
                             !.process = IF LegacyRaisesBeforePopen(outcome)
                                         THEN "undefined" ELSE "set",
                             !.exc = outcome, !.init_exc = outcome]
    /\ UNCHANGED <<modern, race>>

\* what ping raises when its request ended in o (lines 351-359)
LegacyPingExc(o) ==
    IF o = "ok" THEN "none" ELSE IF IsTimeout(o) THEN "NoConnection" ELSE o

\* __init__ lines 150-153: the ping, when asked for, and then the assignment
\* self.__stopping = False, reached only when ping returned
LegacyFinish(o) ==
    /\ legacy.pc = "started"
    /\ legacy' =
         IF legacy.ping /\ o # "ok"
         THEN [legacy EXCEPT !.pc = "failed",
                             !.requests = Append(@, <<"ping", o>>),
                             !.exc = LegacyPingExc(o), !.init_exc = LegacyPingExc(o)]
         ELSE [legacy EXCEPT !.pc = "idle", !.stopping = "false",
                             !.requests = IF legacy.ping
                                          THEN Append(@, <<"ping", o>>) ELSE @]
    /\ UNCHANGED <<modern, race>>

\* ping called by the owner of a constructed Instance (lines 343-359)
LegacyPing(o) ==
    /\ legacy.pc = "idle"
    /\ Len(legacy.requests) < MaxRequests
    /\ legacy' = [legacy EXCEPT !.requests = Append(@, <<"ping", o>>),
                                !.op = "ping", !.exc = LegacyPingExc(o)]
    /\ UNCHANGED <<modern, race>>

\* stop (lines 326-341), its request, if sent, ending in o: line 333 reads
\* self.process and, when it is a process, self.__stopping
LegacyStopBody(l, o) ==
    IF l.process = "undefined" \/ l.stopping = "undefined"
    THEN [l EXCEPT !.exc = "AttributeError"]
    ELSE IF l.stopping = "true"
    THEN [l EXCEPT !.exc = "none"]
    ELSE [l EXCEPT !.stopping = "true",
                   !.requests = Append(@, <<"stop", o>>),
                   !.exc = IF o = "ok" THEN "none" ELSE o]

\* stop called by the owner of a constructed Instance
LegacyStop(o) ==
    /\ legacy.pc = "idle"
    /\ legacy' = [LegacyStopBody(legacy, o) EXCEPT !.op = "stop"]
    /\ UNCHANGED <<modern, race>>

\* the interpreter exits: atexit runs self.stop when line 148 registered it
LegacyExit(o) ==
    /\ legacy.pc \in {"idle", "failed"}
    /\ legacy' =
         IF legacy.hook
         THEN [LegacyStopBody(legacy, o) EXCEPT !.op = "atexit", !.pc = "exited"]
         ELSE [legacy EXCEPT !.op = "exit", !.pc = "exited"]
    /\ UNCHANGED <<modern, race>>

InitLegacy ==
    /\ Quiescent
    /\ NoCaches
    /\ legacy \in {LegacyConstruct(ar, ping) : ar \in BOOLEAN, ping \in BOOLEAN}
    /\ race = NoRace

NextLegacy ==
    \/ \E outcome \in LegacyStartOutcomes : LegacyStart(outcome)
    \/ \E o \in LegacyOutcomes : LegacyFinish(o)
    \/ \E o \in LegacyOutcomes : LegacyPing(o)
    \/ \E o \in LegacyOutcomes : LegacyStop(o)
    \/ \E o \in LegacyOutcomes : LegacyExit(o)

SpecLegacy == InitLegacy /\ [][NextLegacy]_vars

----------------------------------------------------------------------------
(* _analyze_numpy_shm (lines 362-388) run by two threads of control at      *)
(* once, one statement at a time, on an Instance whose _can_use_shm is      *)
(* cached.                                                                  *)

\* the images of the concurrent calls: two of one shape with different pixels
\* and one of another shape with as many pixels, so that none broadcasts
\* into the array of another
RaceArrays == {Array(<<1, 2>>, 1, 1), Array(<<1, 2>>, 1, 2), Array(<<2, 1>>, 1, 1)}

\* thread t is inside _analyze_numpy_shm
Busy(t) == race.threads[t].pc \notin {"idle", "posted", "raised", "killed"}

\* the threads once t has taken a step as th[t]: calls that run at the same
\* time are marked
Stepped(t, step) ==
    LET th == [race.threads EXCEPT ![t] = step]
    IN IF \E u \in Analyzers \ {t} : Busy(u)
       THEN [u \in Analyzers |-> [th[u] EXCEPT !.overlapped = TRUE]]
       ELSE th

\* a new segment of n bytes holds zeros
Zeros(n) == [i \in 1..n |-> 0]

\* a mutant of Written: the assignment of line 372 copies nothing
Written_Nothing(old, arr, image) == old

\* line 372: the bytes of the segment after self._shm_arr[:] = image[:]
Written(old, arr, image) == ToBytes(Cast(Pixels(image), arr.itemsize), arr.itemsize)

\* line 362: thread t enters _analyze_numpy_shm with image
RaceBegin(t, image) ==
    /\ race.threads[t].pc = "idle"
    /\ race' = [race EXCEPT !.threads =
                    Stepped(t, [race.threads[t] EXCEPT !.pc = "compare",
                                                       !.image = image])]
    /\ UNCHANGED <<modern, legacy>>

\* line 364: the shapes are compared
RaceCompare(t) ==
    /\ race.threads[t].pc = "compare"
    /\ race' = [race EXCEPT !.threads =
                    Stepped(t, [race.threads[t] EXCEPT !.pc =
                                   IF race.arr.shape # race.threads[t].image.shape
                                   THEN "close" ELSE "write"])]
    /\ UNCHANGED <<modern, legacy>>

\* line 365: self._shm.close()
RaceClose(t) ==
    /\ race.threads[t].pc = "close"
    /\ race' = [race EXCEPT !.segments[race.shm].open = FALSE,
                            !.threads =
                                Stepped(t, [race.threads[t] EXCEPT !.pc = "create"])]
    /\ UNCHANGED <<modern, legacy>>

\* line 366: self._shm = SharedMemory(create=True, size=image.nbytes), which
\* raises ValueError for 0 bytes
RaceCreate(t) ==
    /\ race.threads[t].pc = "create"
    /\ LET n == NBytes(race.threads[t].image)
       IN race' =
            IF n = 0
            THEN [race EXCEPT !.threads =
                     Stepped(t, [race.threads[t] EXCEPT !.pc = "raised"])]
            ELSE [race EXCEPT !.shm = Len(race.segments) + 1,
                              !.segments = Append(@, [buf |-> Zeros(n), open |-> TRUE]),
                              !.threads =
                                  Stepped(t, [race.threads[t] EXCEPT !.pc = "map"])]
    /\ UNCHANGED <<modern, legacy>>

\* lines 367-371: self._shm_arr = np.ndarray(shape, dtype, buffer=self._shm.buf).
\* The buf of a closed segment is None, which makes np.ndarray allocate memory
\* of its own (seg 0); a buffer shorter than the array is a TypeError.
RaceMap(t) ==
    /\ race.threads[t].pc = "map"
    /\ LET image == race.threads[t].image
           seg == race.segments[race.shm]
       IN race' =
            IF seg.open /\ Len(seg.buf) < NBytes(image)
            THEN [race EXCEPT !.threads =
                     Stepped(t, [race.threads[t] EXCEPT !.pc = "raised"])]
            ELSE [race EXCEPT !.arr = [shape |-> image.shape,
                                       itemsize |-> image.itemsize,
                                       seg |-> IF seg.open THEN race.shm ELSE 0],
                              !.threads =
                                  Stepped(t, [race.threads[t] EXCEPT !.pc = "write"])]
    /\ UNCHANGED <<modern, legacy>>

\* line 372: self._shm_arr[:] = image[:].  Another shape raises ValueError;
\* through an array whose segment was closed the write is one of
\* DanglingOutcomes, ub; SIGSEGV ends every thread of the process.
RaceWrite(t, ub) ==
    /\ race.threads[t].pc = "write"
    /\ LET image == race.threads[t].image
           arr == race.arr
           dangling == arr.seg # 0 /\ ~race.segments[arr.seg].open
       IN /\ ub \in (IF arr.shape = image.shape /\ dangling
                     THEN DanglingOutcomes ELSE {"none"})
          /\ race' =
               IF arr.shape # image.shape
               THEN [race EXCEPT !.threads =
                        Stepped(t, [race.threads[t] EXCEPT !.pc = "raised"])]
               ELSE IF ub = "SIGSEGV"
               THEN [race EXCEPT !.threads =
                        [u \in Analyzers |->
                            [Stepped(t, race.threads[t])[u] EXCEPT !.pc = "killed"]]]
               ELSE IF arr.seg = 0 \/ dangling
               THEN [race EXCEPT !.threads =
                        Stepped(t, [race.threads[t] EXCEPT !.pc = "url"])]
               ELSE [race EXCEPT !.segments[arr.seg].buf = Written(@, arr, image),
                                 !.threads =
                                     Stepped(t, [race.threads[t] EXCEPT !.pc = "url"])]
    /\ UNCHANGED <<modern, legacy>>

\* lines 374-381: the URL is built with name=self._shm.name
RaceUrl(t) ==
    /\ race.threads[t].pc = "url"
    /\ race' = [race EXCEPT !.threads =
                    Stepped(t, [race.threads[t] EXCEPT !.pc = "post",
                                                       !.name = race.shm])]
    /\ UNCHANGED <<modern, legacy>>

\* lines 383-386: the POST; the server reads the segment the URL names
RacePost(t) ==
    /\ race.threads[t].pc = "post"
    /\ LET seg == race.segments[race.threads[t].name]
       IN race' = [race EXCEPT !.threads =
                      Stepped(t, [race.threads[t] EXCEPT !.pc = "posted",
                                                         !.got = Some(seg.buf),
                                                         !.released = ~seg.open])]
    /\ UNCHANGED <<modern, legacy>>

\* an Instance that found its local server to be 3.18.0
InitRace ==
    /\ Quiescent
    /\ server_version = Some(ParseVersion(Ver_3_18_0))
    /\ can_use_shm = Some(TRUE)
    /\ version_answers = 1
    /\ version_text = Some(Ver_3_18_0)
    /\ legacy = NoLegacy
    /\ race = NoRace

NextRace ==
    \E t \in Analyzers :
        \/ \E image \in RaceArrays : RaceBegin(t, image)
        \/ RaceCompare(t)
        \/ RaceClose(t)
        \/ RaceCreate(t)
        \/ RaceMap(t)
        \/ \E ub \in DanglingOutcomes \cup {"none"} : RaceWrite(t, ub)
        \/ RaceUrl(t)
        \/ RacePost(t)

SpecRace == InitRace /\ [][NextRace]_vars

----------------------------------------------------------------------------
(* Properties of stop and of the launch. *)

\* C1: over any sequence of stop() calls, explicit or made by __del__, at most
\* one GET /stop is ever sent: the guard is latched exactly when the request
\* is sent, and an Instance that never launched a process sends none.
C1_AtMostOneStopRequest ==
    /\ Len(stop_requests) <= 1
    /\ stopping <=> Len(stop_requests) = 1
    /\ IsNone(process) => stop_requests = <<>>
    /\ call.op \in {"stop", "__del__"} /\ call.reqs # <<>> => Len(stop_requests) = 1

\* the release of an Instance whose owner had already stopped it: __del__ calls
\* stop again and nothing is sent
C1_Witness ==
    /\ pc = "deleted"
    /\ ~already_running
    /\ call.op = "__del__"
    /\ call.reqs = <<>>
    /\ Len(stop_requests) = 1

\* a step of the polling loop on a line that holds the address-in-use marker
ConflictReported ==
    \E line \in SUBSET Markers : ADDR_IN_USE \in line /\ ReadLine(line)

\* what C2 says launch does on such a step
ConflictHandled ==
    IF port_is_defined
    THEN /\ pc' = "failed"
         /\ exc' = "PortIsAllocatedError"
         /\ spawned' = spawned
    ELSE /\ pc' = "polling"
         /\ spawned' = spawned + 1
         /\ port' \in Ports
         /\ child' = Some([port |-> port', stop_key |-> Get(stop_key')])

\* C2 as claimed: whenever the child reports the address-in-use marker during
\* launch, a pinned port ends the launch with PortIsAllocatedError and no
\* further spawn, and an auto-allocated port is replaced and the server is
\* spawned again with the new port.
C2_ConflictAlwaysHandled == [][ConflictReported => ConflictHandled]_vars

\* the line that reports the conflict also completes the readiness condition
ConflictLineCompletesReadiness ==
    \E line \in SUBSET Markers :
        /\ ADDR_IN_USE \in line
        /\ ReadLine(line)
        /\ server_running \/ SERVER_RUNNING \in line
        /\ stop_init_model \/ STOP_INIT_MODEL \in line

\* C2 amended: the address-in-use marker is handled as claimed unless the line
\* that holds it also completes the readiness condition, which line 272 tests
\* first; and a launch that ended in PortIsAllocatedError had a pinned port and
\* spawned once.
C2_ConflictHandledUnlessReady ==
    /\ [][ConflictReported /\ ~ConflictLineCompletesReadiness => ConflictHandled]_vars
    /\ [](exc = "PortIsAllocatedError" => port_is_defined /\ spawned = 1)

\* an auto-allocated port was in conflict and the server was spawned again
C2_Witness ==
    /\ ~port_is_defined
    /\ pc = "polling"
    /\ spawned = 2
    /\ Get(child).port = port

\* C3: launch returns only after the child it last spawned has emitted the
\* server-running marker and, if wait_for_init_model, the models-initialized
\* marker; markers of a child abandoned by a retry do not count.
C3_ReadyOnlyAfterMarkers ==
    ~already_running /\ pc \in {"launched", "idle"} =>
        /\ SERVER_RUNNING \in childOut
        /\ wait_for_init_model => STOP_INIT_MODEL \in childOut

\* launch returned ready for the second child, which emitted both markers
C3_Witness ==
    /\ pc = "launched"
    /\ wait_for_init_model
    /\ spawned = 2
    /\ {SERVER_RUNNING, STOP_INIT_MODEL} \subseteq childOut

\* C4: if the child exits with its output at end-of-input before the readiness
\* condition was met, launch fails with PekatNotStartedError and never
\* returns ready.
C4_EofFailsLaunch ==
    childExited =>
        \/ pc = "polling"
        \/ pc \in {"failed", "deleted"} /\ exc = "PekatNotStartedError"

\* the child exited before it was ready and launch raised
C4_Witness ==
    /\ childExited
    /\ pc = "failed"
    /\ exc = "PekatNotStartedError"
    /\ SERVER_RUNNING \in childOut

----------------------------------------------------------------------------
(* Properties of analyze's validation. *)

\* C5: a response_type outside the allowed set fails with
\* InvalidResponseTypeError whatever the image argument, and the call sends
\* no request.
C5_InvalidResponseTypeBeforeNetwork ==
    call.op = "analyze" /\ call.response_type \notin ALLOWED_RESPONSE_TYPES =>
        /\ call.result.exc = "InvalidResponseTypeError"
        /\ call.reqs = <<>>

\* an invalid response_type given together with an unsupported image
C5_Witness ==
    /\ call.op = "analyze"
    /\ call.response_type = "bogus"
    /\ call.image = "int"
    /\ call.result.exc = "InvalidResponseTypeError"

\* C6: an image that is not a path, bytes or a pixel array, given with a valid
\* response_type, fails with InvalidDataTypeError, and the call sends no
\* request, the version query included.
C6_InvalidDataTypeBeforeNetwork ==
    /\ call.op = "analyze"
    /\ call.response_type \in ALLOWED_RESPONSE_TYPES
    /\ call.image \notin {"path", "bytes", "ndarray"}
    => /\ call.result.exc = "InvalidDataTypeError"
       /\ call.reqs = <<>>

\* an unsupported image on a local Instance whose version was never queried
C6_Witness ==
    /\ call.op = "analyze"
    /\ call.image = "int"
    /\ call.response_type = "heatmap"
    /\ call.result.exc = "InvalidDataTypeError"
    /\ is_local
    /\ serverUp
    /\ IsNone(can_use_shm)

----------------------------------------------------------------------------
(* Properties of the decoding of a response. *)

ImageBearing == {"image", "annotated_image", "heatmap"}

\* the last operation is an analyze the server answered
Answered == call.op = "analyze" /\ ~IsNone(call.response)

\* the body and the headers of that answer
Body == Get(call.response).content
ImageLenHeader == Get(call.response).ImageLen
ContextHeader == Get(call.response).ContextBase64utf

\* the result is the context parsed from text and no image, or the JSON error
ContextOnlyFrom(text) ==
    /\ IsNone(call.result.image_bytes)
    /\ IF JsonLoads(text).exc = "none"
       THEN call.result = Result(None, JsonLoads(text).val)
       ELSE call.result.exc = "JSONDecodeError"

\* C7: for response_type context the result is no image and the JSON of the
\* whole body, whatever the context-in-body mode and the two headers are.
C7_ContextDecode ==
    Answered /\ call.response_type = "context" => ContextOnlyFrom(Body)

\* a context response decoded in body mode although both headers are present
C7_Witness ==
    /\ Answered
    /\ call.response_type = "context"
    /\ context_in_body
    /\ ImageLenHeader = Some(Txt_1)
    /\ ContextHeader = Some(B64_arr1)
    /\ Body = J_obj
    /\ call.result = Result(None, <<"obj", <<>>>>)

\* C8: in header mode with an image-bearing response type, a response with the
\* header ContextBase64utf gives the whole body as image and the JSON of the
\* base64-decoded header as context; without the header it gives no image and
\* the JSON of the whole body.
C8_HeaderModeDecode ==
    Answered /\ ~context_in_body /\ call.response_type \in ImageBearing =>
        IF IsNone(ContextHeader) THEN ContextOnlyFrom(Body)
        ELSE LET d == B64Decode(Get(ContextHeader))
             IN /\ IF d.exc = "none" /\ JsonLoads(d.bytes).exc = "none"
                   THEN call.result = Result(Some(Body), JsonLoads(d.bytes).val)
                   ELSE call.result.exc # "none"
                /\ ContextHeader = Some(B64_obj) =>
                      call.result = Result(Some(Body), <<"obj", <<>>>>)
                /\ ContextHeader = Some(B64_arr1) =>
                      call.result = Result(Some(Body), <<"arr", <<<<"num", 1>>>>>>)

\* a heatmap response split into the body as image and the header's [1]
C8_Witness ==
    /\ Answered
    /\ ~context_in_body
    /\ call.response_type = "heatmap"
    /\ ContextHeader = Some(B64_arr1)
    /\ Body = <<PngByte, LBracket>> \o J_one
    /\ call.result = Result(Some(Body), <<"arr", <<<<"num", 1>>>>>>)

\* C9: in context-in-body mode with an image-bearing response type and
\* ImageLen = n, 0 < n <= length of the body, the image is the first n bytes
\* and the context is the JSON of exactly the remaining bytes.
C9_BodyModeSplit ==
    Answered /\ context_in_body /\ call.response_type \in ImageBearing =>
        \A n \in 1..9 :
            ImageLenHeader = Some(<<Digits[n + 1]>>) /\ n <= Len(Body) =>
                LET img == SubSeq(Body, 1, n)
                    rest == SubSeq(Body, n + 1, Len(Body))
                IN IF JsonLoads(rest).exc = "none"
                   THEN call.result = Result(Some(img), JsonLoads(rest).val)
                   ELSE call.result.exc = JsonLoads(rest).exc

\* a body of two image bytes, the second one a bracket, and the text 10
C9_Witness ==
    /\ Answered
    /\ context_in_body
    /\ call.response_type = "image"
    /\ ImageLenHeader = Some(Txt_2)
    /\ Body = <<PngByte, LBracket>> \o J_ten
    /\ call.result = Result(Some(<<PngByte, LBracket>>), <<"num", 10>>)

\* C10: in context-in-body mode with an image-bearing response type, an
\* ImageLen header that is missing, empty or zero gives a context-only result:
\* image bytes None and the JSON of the whole body.
C10_FalsyImageLenIsContextOnly ==
    /\ Answered
    /\ context_in_body
    /\ call.response_type \in ImageBearing
    /\ \/ IsNone(ImageLenHeader)
       \/ ImageLenHeader = Some(<<>>)
       \/ ImageLenHeader = Some(Txt_0)
    => ContextOnlyFrom(Body)

----------------------------------------------------------------------------
(* Properties of the choice of the transport. *)

Endpoints == {"analyze_image", "analyze_raw_image", "analyze_image_shared_memory"}

\* the endpoint the last operation, an analyze, posted the image to, or "none"
PostedTo ==
    IF /\ call.op = "analyze"
       /\ call.reqs # <<>>
       /\ call.reqs[Len(call.reqs)] \in Endpoints
    THEN call.reqs[Len(call.reqs)]
    ELSE "none"

\* the texts of the model that name a version at or above 3.18.0
AtLeast_3_18_0 == {Ver_3_18_0, Ver_4_0, Ver_v3_18_0, Ver_3_18_0nl}

\* C11: an analyze of a pixel array posts to the shared-memory endpoint only
\* if the host is local and the version the server reported is >= 3.18.0, an
\* unparsable text counting as 0.0.0; in every other case it posts to the
\* raw-pixel endpoint; a path or bytes never go to the shared-memory endpoint.
C11_ShmOnlyLocalAndRecent ==
    PostedTo # "none" =>
        IF call.image = "ndarray"
        THEN PostedTo =
               IF /\ is_local
                  /\ ~IsNone(version_text)
                  /\ Get(version_text) \in AtLeast_3_18_0
               THEN "analyze_image_shared_memory"
               ELSE "analyze_raw_image"
        ELSE PostedTo = "analyze_image"

\* a pixel array sent through shared memory to a local server that reported
\* exactly the threshold
C11_Witness ==
    /\ PostedTo = "analyze_image_shared_memory"
    /\ call.image = "ndarray"
    /\ is_local
    /\ version_text = Some(Ver_3_18_0)
    /\ call.reqs = <<"version", "analyze_image_shared_memory">>

\* an analyze step taken after the version query was answered
AnalyzeAfterAnswer ==
    /\ version_answers = 1
    /\ call' # call
    /\ call'.op = "analyze"

\* the last request of the call the step made
LastReq == call'.reqs[Len(call'.reqs)]

\* C12: over any sequence of analyze calls GET /version is answered at most
\* once; after the answer the cached decision is kept, every later analyze of
\* a pixel array takes the transport it names and sends no version query; an
\* Instance whose host is not local never sends a version query.
C12_VersionQueriedOnce ==
    /\ [](version_answers <= 1)
    /\ [](version_answers = 1 => ~IsNone(can_use_shm))
    /\ [](~is_local =>
            /\ version_answers = 0
            /\ \A i \in 1..Len(call.reqs) : call.reqs[i] # "version")
    /\ [][version_answers = 1 =>
            /\ version_answers' = 1
            /\ can_use_shm' = can_use_shm]_vars
    /\ [][AnalyzeAfterAnswer =>
            /\ \A i \in 1..Len(call'.reqs) : call'.reqs[i] # "version"
            /\ call'.image = "ndarray" /\ call'.reqs # <<>> =>
                  LastReq = IF Get(can_use_shm)
                            THEN "analyze_image_shared_memory"
                            ELSE "analyze_raw_image"]_vars

\* a pixel array analyzed on a local Instance after the version was answered:
\* the POST is the only request
C12_Witness ==
    /\ version_answers = 1
    /\ is_local
    /\ call.op = "analyze"
    /\ call.image = "ndarray"
    /\ call.reqs = <<"analyze_image_shared_memory">>
    /\ call.outcomes = <<"ok">>

----------------------------------------------------------------------------
(* Properties of the teardown. *)

\* the step that releases an Instance which spawned a server
ReleaseOfOwner ==
    /\ pc # "deleted"
    /\ pc' = "deleted"
    /\ ~already_running
    /\ ~IsNone(process)

\* C13: the release of an Instance that spawned its server triggers stop
\* exactly once: __del__ sends the shutdown request if none was sent before
\* and sends nothing if the caller had already stopped, so over the lifetime
\* of the Instance exactly one shutdown request is sent.
C13_StopOnceOnRelease ==
    /\ [][ReleaseOfOwner =>
            IF stop_requests = <<>>
            THEN /\ call'.reqs = <<"stop">>
                 /\ Len(stop_requests') = 1
            ELSE /\ call'.reqs = <<>>
                 /\ stop_requests' = stop_requests]_vars
    /\ [](pc = "deleted" /\ ~already_running /\ ~IsNone(process) =>
            /\ Len(stop_requests) = 1
            /\ stop_requests[1].key = Get(stop_key))

\* an Instance released without a stop by its owner: __del__ sent the request
C13_Witness ==
    /\ pc = "deleted"
    /\ ~already_running
    /\ exc = "none"
    /\ call.op = "__del__"
    /\ call.reqs = <<"stop">>
    /\ call.outcomes = <<"ok">>
    /\ stop_requests = <<[port |-> port, key |-> Get(stop_key)]>>

\* C14: on teardown the shared-memory segment held by the Instance is
\* released in every case, also when the stop made by __del__ fails with a
\* timeout (NoConnectionError) or another error of the transport.
C14_ShmReleasedOnTeardown == pc = "deleted" => shm = "closed"

\* C15: when two threads of control, a cleanup hook and the caller's code, run
\* stop() at the same time on an Instance that owns a process, at most one
\* shutdown request is sent in every interleaving.
C15_OneStopRequestUnderConcurrency == Len(stop_requests) <= 1

----------------------------------------------------------------------------
(* Properties of the port. *)

\* C16: the port of an Instance created with a pinned port never changes; an
\* auto-allocated port changes only inside launch, on a line of the child that
\* reports the bind conflict, and no analyze, ping, stop or release changes it
\* once launch has ended; the child in use was started with the Instance's port.
C16_PortFixedAfterChoice ==
    /\ [][port_is_defined => port' = port]_vars
    /\ [][port' # port =>
            /\ ~port_is_defined
            /\ pc = "polling"
            /\ pc' = "polling"
            /\ ConflictReported]_vars
    /\ [](~IsNone(child) => Get(child).port = port)
    /\ [](\A i \in 1..Len(stop_requests) : stop_requests[i].port = port)

\* an Instance whose auto-allocated port met a conflict, constructed, used
\* and released: the shutdown request went to the port of the second child
C16_Witness ==
    /\ ~port_is_defined
    /\ spawned = MaxSpawns
    /\ pc = "deleted"
    /\ exc = "none"
    /\ call.reqs = <<"stop">>
    /\ stop_requests = <<[port |-> Get(child).port, key |-> Get(child).stop_key]>>

----------------------------------------------------------------------------
(* Properties of the errors of the transport. *)

\* C17: ping fails with NoConnectionError exactly when its request timed out;
\* every other error of the transport, a refused connection for one, reaches
\* the caller unchanged, and a request that succeeded returns the response of
\* the server.
C17_PingTimeoutIsNoConnection ==
    call.op = "ping" =>
        /\ call.reqs = <<"ping">>
        /\ call.result.exc = "NoConnectionError" <=>
              call.outcomes[1] \in {"ReadTimeout", "ConnectTimeout"}
        /\ call.outcomes[1] = "ConnectionError" =>
              call.result.exc = "ConnectionError"
        /\ call.outcomes[1] = "ok" =>
              /\ call.result.exc = "none"
              /\ ~IsNone(call.response)
              /\ call.result.context = <<"response", Get(call.response)>>

\* a ping of a server that is not there, refused: the error of requests
C17_Witness ==
    /\ call.op = "ping"
    /\ ~serverUp
    /\ call.outcomes = <<"ConnectionError">>
    /\ call.result.exc = "ConnectionError"

\* C18: a timeout of the shutdown request made by stop() reaches the caller as
\* NoConnectionError, and whatever the request ends in the client never kills
\* or terminates the child: a shutdown is only ever asked for by the HTTP
\* request that carries the stop key.
C18_StopTimeoutReportedNotKilled ==
    /\ signals = <<>>
    /\ \A i \in 1..Len(stop_requests) : stop_requests[i].key = Get(stop_key)
    /\ call.op \in {"stop", "__del__"} /\ call.reqs # <<>> =>
          /\ call.reqs = <<"stop">>
          /\ call.outcomes[1] \in {"ReadTimeout", "ConnectTimeout"} =>
                call.result.exc = "NoConnectionError"
          /\ call.outcomes[1] = "ConnectionError" =>
                call.result.exc = "ConnectionError"
          /\ call.outcomes[1] = "ok" => call.result.exc = "none"

\* a stop whose request the running server did not answer in time
C18_Witness ==
    /\ call.op = "stop"
    /\ call.outcomes = <<"ReadTimeout">>
    /\ call.result.exc = "NoConnectionError"
    /\ serverUp
    /\ stopping
    /\ signals = <<>>

\* the last operation is an analyze whose arguments pass the validation of
\* lines 457-469
ValidAnalyze ==
    /\ call.op = "analyze"
    /\ call.response_type \in ALLOWED_RESPONSE_TYPES
    /\ call.image \in {"path", "bytes", "ndarray"}

\* C19: once stop() was called on an Instance that started its server and the
\* server has shut down, every analyze of an image (arguments that pass the
\* validation) fails with a connection error of the transport and returns no
\* Result; the client sends the request, it does not refuse the call itself.
C19_AnalyzeAfterStopFails ==
    ValidAnalyze /\ ~already_running /\ stopping /\ ~serverUp =>
        /\ call.reqs # <<>>
        /\ Len(call.outcomes) = Len(call.reqs)
        /\ IsNone(call.response)
        /\ call.result.exc \in {"ConnectionError", "ConnectTimeout"}
        /\ call.result.exc = call.outcomes[Len(call.outcomes)]

\* bytes analyzed after the server was stopped: the POST was sent and refused
C19_Witness ==
    /\ ~already_running
    /\ stopping
    /\ ~serverUp
    /\ stop_requests # <<>>
    /\ call.op = "analyze"
    /\ call.image = "bytes"
    /\ call.reqs = <<"analyze_image">>
    /\ call.result.exc = "ConnectionError"

\* what the last request of the last operation ended in, "none" without one
LastOutcome ==
    IF call.outcomes = <<>> THEN "none" ELSE call.outcomes[Len(call.outcomes)]

\* C20: a timeout of the transport during analyze, on any of the three
\* endpoints, reaches the caller as the timeout error of the transport and is
\* never turned into NoConnectionError, which only ping and stop raise.
C20_AnalyzeTimeoutPropagates ==
    /\ call.op = "analyze" =>
          /\ call.result.exc # "NoConnectionError"
          /\ LastOutcome \in {"ReadTimeout", "ConnectTimeout"} =>
                call.result.exc = LastOutcome
    /\ call.result.exc = "NoConnectionError" =>
          /\ call.op \in {"ping", "stop", "__del__", "__init__"}
          /\ LastOutcome \in {"ReadTimeout", "ConnectTimeout"}

\* a pixel array posted to the shared-memory endpoint, the answer timing out
C20_Witness ==
    /\ call.op = "analyze"
    /\ call.image = "ndarray"
    /\ call.reqs = <<"version", "analyze_image_shared_memory">>
    /\ call.outcomes = <<"ok", "ReadTimeout">>
    /\ call.result.exc = "ReadTimeout"

----------------------------------------------------------------------------
(* Properties of the Result. *)

\* the last operation is an analyze that returned a Result
ReturnedResult == Answered /\ call.result.exc = "none"

ModeHeaderMissing ==
    IF context_in_body
    THEN IsNone(ImageLenHeader) \/ ImageLenHeader = Some(<<>>)
    ELSE IsNone(ContextHeader)

----------------------------------------------------------------------------
(* Properties of the launch. *)

\* __init__ went into _start_instance and came to an end, or is polling
LaunchAttempted == ~already_running /\ pc # "construct"

\* the errors of the checks made before Popen
ValidationErrors ==
    {"ProjectNotFoundError", "DistNotExistsError", "DistNotFoundError"}

\* C22: a project without the manifest fails with ProjectNotFoundError, also
\* when the install directory is missing too; with the project in order a
\* given install path that does not exist fails with DistNotExistsError and no
\* install candidate with DistNotFoundError; after each of these no child was
\* spawned and the Instance has no process and no stop key.
C22_ValidationBeforeSpawn ==
    /\ LaunchAttempted /\ project_path = "no_manifest"
           => exc = "ProjectNotFoundError"
    /\ LaunchAttempted /\ project_path = "ok" /\ dist_path = "given_missing"
           => exc = "DistNotExistsError"
    /\ LaunchAttempted /\ project_path = "ok" /\ dist_path = "not_found"
           => exc = "DistNotFoundError"
    /\ exc \in ValidationErrors
           => /\ pc \in {"failed", "deleted"}
              /\ spawned = 0
              /\ child = None
              /\ process = None
              /\ stop_key = None

\* a launch with the manifest and the given install path both missing
C22_Witness ==
    /\ pc = "failed"
    /\ project_path = "no_manifest"
    /\ dist_path = "given_missing"
    /\ exc = "ProjectNotFoundError"
    /\ spawned = 0

\* the respawns of the launch: the children started after the first one
Respawns == IF spawned = 0 THEN 0 ELSE spawned - 1

\* the last operation sent no request twice, and none after one that failed
NoRequestReissued ==
    \A i \in 1..Len(call.reqs) :
        /\ \A j \in 1..Len(call.reqs) : call.reqs[i] = call.reqs[j] => i = j
        /\ call.outcomes[i] # "ok" => i = Len(call.reqs)

----------------------------------------------------------------------------
(* Properties of get_decoded_image. *)

\* the errors get_decoded_image raises by itself
DecodeFailures == {"ValueError", "OpenCVImportError"}

\* the last get_decoded_image was made on the Result of the last analyze and
\* failed as result.py says: ValueError without image bytes, whatever the
\* codec, OpenCVImportError with image bytes and no codec
DecodeOutcome ==
    ~IsNone(decoded_image) =>
        LET d == Get(decoded_image)
        IN /\ d.of = call.result
           /\ IsNone(d.of.image_bytes) => d.out.exc = "ValueError"
           /\ ~IsNone(d.of.image_bytes) /\ ~d.cv2 => d.out.exc = "OpenCVImportError"
           /\ ~IsNone(d.of.image_bytes) /\ d.cv2 => d.out.exc \notin DecodeFailures

\* a step of analyze leaves the codec alone; a step that calls the codec is a
\* get_decoded_image; a get_decoded_image that fails calls no codec and leaves
\* the Result as it was
DecodeStepwise ==
    /\ call' # call => cv2_calls' = cv2_calls
    /\ cv2_calls' # cv2_calls =>
          /\ call' = call
          /\ ~IsNone(decoded_image')
          /\ Get(decoded_image').out.exc \notin DecodeFailures
    /\ (decoded_image' # decoded_image
            /\ Get(decoded_image').out.exc \in DecodeFailures)
           => /\ call' = call
              /\ cv2_calls' = cv2_calls
              /\ Get(decoded_image').of = call.result

----------------------------------------------------------------------------
(* Properties of the stop key. *)

\* the keys given to the children spawned so far, the last one excepted
AbandonedKeys == 1..(spawned - 1)

\* every shutdown request sent so far carries the -port and -stop_key
\* arguments of the last child spawned, and self.port and self.stop_key are
\* those arguments from the first spawn on
StopRequestMatchesChild ==
    /\ ~IsNone(child) =>
          /\ stop_key = Some(Get(child).stop_key)
          /\ port = Get(child).port
          /\ Get(child).stop_key \notin AbandonedKeys
    /\ \A i \in 1..Len(stop_requests) :
          /\ ~IsNone(child)
          /\ stop_requests[i].port = Get(child).port
          /\ stop_requests[i].key = Get(child).stop_key
          /\ stop_requests[i].key \notin AbandonedKeys

\* a spawn gives the child a key no child before it was given
FreshKeyPerSpawn ==
    spawned' # spawned =>
        /\ stop_key' # stop_key
        /\ Get(stop_key') \notin 1..spawned

\* C25: the stop key and port of a shutdown request equal the -stop_key and
\* -port arguments of the most recently spawned child; every spawn, a respawn
\* after a port conflict included, generates a new key, and the key of an
\* abandoned child is never sent.
C25_StopKeyOfLastChild == []StopRequestMatchesChild /\ [][FreshKeyPerSpawn]_vars

\* a shutdown request sent to the second child of a launch, on its port
C25_Witness ==
    /\ spawned = 2
    /\ pc = "idle"
    /\ Len(stop_requests) = 1
    /\ stop_requests[1] = [port |-> Get(child).port, key |-> 2]

----------------------------------------------------------------------------
(* Properties of stop after a failed launch and after a failed stop. *)

\* the errors of a launch that spawned a child and did not become ready
LaunchFailures == {"PortIsAllocatedError", "PekatNotStartedError"}

\* C26: after a launch that failed with PortIsAllocatedError or
\* PekatNotStartedError no shutdown request is sent, neither by stop nor by
\* the release of the partially constructed Instance.
C26_NoStopAfterFailedLaunch ==
    exc \in LaunchFailures => stop_requests = <<>>

\* once a shutdown request was sent the latch is set
LatchedWhenSent == stop_requests # <<>> => stopping

\* the latch is never cleared, and with the latch set no step sends a
\* shutdown request, whatever the one before it ended in
LatchHolds ==
    stopping => stopping' /\ stop_requests' = stop_requests

\* C27: the latch of stop is set by the call that sends the shutdown request
\* and is never reset; after a shutdown request that failed, every later stop
\* and the stop of the release return without sending a request.
C27_FailedStopNotRetried == []LatchedWhenSent /\ [][LatchHolds]_vars

\* a stop that returned without a request after the one before it failed and
\* left the server running
C27_Witness ==
    /\ call.op = "stop"
    /\ call.reqs = <<>>
    /\ call.result.exc = "none"
    /\ Len(stop_requests) = 1
    /\ stopping
    /\ serverUp

----------------------------------------------------------------------------
(* Properties of the shared-memory segment. *)

\* C28: when a shared-memory request is issued the segment it names holds
\* exactly the bytes of the call's array and is at least as large as the
\* array, and the call has put a new segment in place of the one before
\* exactly when the array's shape differs from the shape self._shm_arr had.
C28_SegmentHoldsTheImage ==
    ~IsNone(shm_post) =>
        LET r == Get(shm_post)
        IN /\ r.buf = ArrayBytes(r.image)
           /\ Len(r.buf) >= NBytes(r.image)
           /\ r.name # r.previous <=> r.before # r.image.shape

\* the segments of the Instance that are open in the client
OpenSegments ==
    (IF shm = "open" THEN 1 ELSE 0)
        + Cardinality({i \in 1..Len(replaced) : replaced[i] = "open"})

\* C29: from construction to release the Instance holds exactly one open
\* segment, every segment replaced was closed before the one replacing it was
\* created, and after the release no segment of the Instance is open.
C29_OneOpenSegment ==
    /\ pc \notin {"deleted", "crashed"} => OpenSegments = 1
    /\ \A i \in 1..Len(replaced) : replaced[i] = "closed"
    /\ pc = "deleted" => OpenSegments = 0

----------------------------------------------------------------------------
(* Termination of the launch. *)

\* _start_instance has returned or raised after polling a child
LaunchEnded ==
    \/ pc = "launched" /\ IsReady(server_running, stop_init_model)
    \/ pc = "failed" /\ exc \in LaunchFailures

\* the loop has no counter: the child polled can report a conflict of an
\* ephemeral port and be replaced as long as the model's bound allows it
RespawnUnlimited ==
    (/\ pc = "polling"
     /\ ~childExited
     /\ ~ConflictIsFatal
     /\ spawned < MaxSpawns) => ENABLED ReadLine({ADDR_IN_USE})

\* C30: with a child that eventually completes readiness, reports a bind
\* conflict or exits with its output read, and with finitely many conflicts, a
\* launch that polls ends ready, with PortIsAllocatedError or with
\* PekatNotStartedError; the polling loop ends on nothing else, and the
\* launcher puts no limit on the respawns.
C30_LaunchTerminates ==
    /\ (pc = "polling") ~> LaunchEnded
    /\ [](spawned > 0 /\ pc # "polling" => LaunchEnded)
    /\ []RespawnUnlimited

\* a launch that became ready with the last child the bound allows
C30_Witness ==
    /\ pc = "launched"
    /\ spawned = MaxSpawns
    /\ IsReady(server_running, stop_init_model)

----------------------------------------------------------------------------
(* Properties of the request of an analyze. *)

\* the last operation is an analyze that posted its image: request is its POST
Posted == PostedTo # "none" /\ ~IsNone(request)

\* the query of that POST, its keys, and the value of a key
Query == Get(request).url.query
QueryKeys == [i \in 1..Len(Query) |-> Query[i][1]]
HasKey(key) == \E i \in 1..Len(Query) : Query[i][1] = key
ValueOf(key) == (CHOOSE i \in 1..Len(Query) : Query[i][1] = key)

\* the keys a POST to each endpoint carries besides the marker of the mode
EndpointKeys(endpoint) ==
    IF endpoint = "analyze_image" THEN <<"response_type", "data">>
    ELSE IF endpoint = "analyze_raw_image"
    THEN <<"response_type", "data", "height", "width">>
    ELSE <<"response_type", "data", "height", "width", "name">>

\* C31: path and bytes are posted to analyze_image with the encoded bytes as
\* body; a pixel array to analyze_raw_image with its bytes as body, height =
\* shape[0] and width = shape[1], or to analyze_image_shared_memory with
\* height, width, the name of the segment and no body; every POST carries the
\* validated response_type, and the context_in_body marker exactly when the
\* mode is on, the mode its answer is decoded with.
C31_RequestShape ==
    Posted =>
        LET r == Get(request)
            marker == IF context_in_body THEN <<"context_in_body">> ELSE <<>>
        IN /\ r.url.path = PostedTo
           /\ call.image \in {"path", "bytes"} <=> PostedTo = "analyze_image"
           /\ call.image = "ndarray" <=>
                  PostedTo \in {"analyze_raw_image", "analyze_image_shared_memory"}
           /\ QueryKeys = EndpointKeys(PostedTo) \o marker
           /\ Query[1] = <<"response_type", call.response_type>>
           /\ call.response_type \in ALLOWED_RESPONSE_TYPES
           /\ PostedTo = "analyze_image" => r.body = Some(EncodedImage)
           /\ PostedTo = "analyze_raw_image" => r.body = Some(ArrayBytes(r.array))
           /\ PostedTo = "analyze_image_shared_memory" =>
                  /\ r.body = None
                  /\ Query[ValueOf("name")][2] = ToString(shm_name)
           /\ PostedTo # "analyze_image" =>
                  /\ Query[ValueOf("height")][2] = ToString(r.array.shape[1])
                  /\ Query[ValueOf("width")][2] = ToString(r.array.shape[2])
           /\ Answered =>
                  call.result = ResponseToResult(Get(call.response),
                                                 call.response_type,
                                                 HasKey("context_in_body"))

\* an array of one row and two columns posted raw in body mode and answered
C31_Witness ==
    /\ Posted
    /\ Answered
    /\ PostedTo = "analyze_raw_image"
    /\ Get(request).array.shape = <<1, 2>>
    /\ HasKey("context_in_body")
    /\ Query[ValueOf("width")][2] = "2"

\* C32: the query of an analyze carries the caller's data string when one was
\* given and no data key when none was given.
C32_DataOnlyWhenGiven ==
    Posted =>
        IF IsNone(Get(request).data)
        THEN ~HasKey("data")
        ELSE HasKey("data") /\ Query[ValueOf("data")][2] = Get(Get(request).data)

----------------------------------------------------------------------------
(* Properties of an Instance attached to a running server. *)

\* the requests of the last operation hold no shutdown request
NoStopRequestInCall == \A i \in 1..Len(call.reqs) : call.reqs[i] # "stop"

\* C33: an Instance constructed with already_running never spawns a child,
\* its process handle and stop key stay None in every state, and no analyze,
\* ping, stop or release of it sends a shutdown request.
C33_AttachedNeverSpawnsNorStops ==
    already_running =>
        /\ spawned = 0
        /\ IsNone(child)
        /\ IsNone(process)
        /\ IsNone(stop_key)
        /\ stop_requests = <<>>
        /\ NoStopRequestInCall

\* stop() was called on a constructed attached Instance and returned
C33_Witness ==
    /\ already_running
    /\ pc = "idle"
    /\ call.op = "stop"
    /\ call.result = Returned
    /\ stop_requests = <<>>

----------------------------------------------------------------------------
(* Properties of the legacy module. *)

\* the requests of the legacy Instance hold a shutdown request
LegacyStopSent == \E i \in 1..Len(legacy.requests) : legacy.requests[i][1] = "stop"

\* the launch succeeded and the construction-time ping then failed
LegacyPingFailedAfterLaunch ==
    /\ ~legacy.already_running
    /\ legacy.process = "set"
    /\ legacy.hook
    /\ legacy.init_exc \in {LegacyPingExc(o) : o \in LegacyOutcomes \ {"ok"}}

\* C34: in the legacy module stop never reads an attribute that is not
\* defined: stop() on an attached Instance returns without a request, and
\* after a launch whose construction-time ping failed the exit hook sends the
\* shutdown request.
C34_LegacyStopReadsDefinedState ==
    /\ legacy.op \in {"stop", "atexit"} => legacy.exc # "AttributeError"
    /\ legacy.op = "stop" /\ legacy.already_running =>
           legacy.exc = "none" /\ ~LegacyStopSent
    /\ legacy.pc = "exited" /\ LegacyPingFailedAfterLaunch => LegacyStopSent

----------------------------------------------------------------------------
(* Properties of concurrent analyze calls through shared memory. *)

\* the request of thread t named a segment that did not hold the bytes of
\* its image, or one the client had closed
Interfered(t) ==
    /\ race.threads[t].pc = "posted"
    /\ \/ Get(race.threads[t].got) # ArrayBytes(race.threads[t].image)
       \/ race.threads[t].released

\* C35: a shared-memory analyze that runs alone posts the name of an open
\* segment holding its pixels; only a call that ran while another one was
\* running posts a segment that holds other bytes or was closed, and such an
\* interleaving exists.
C35_InterferenceOnlyWhenConcurrent ==
    \A t \in Analyzers : Interfered(t) => race.threads[t].overlapped

\* two calls with images of one shape: the first wrote its pixels, the second
\* wrote over them in the same segment, and the first then posted its request
C35_Witness ==
    \E t \in Analyzers, u \in Analyzers :
        /\ t # u
        /\ Interfered(t)
        /\ race.threads[t].image.shape = race.threads[u].image.shape
        /\ race.threads[t].got = Some(ArrayBytes(race.threads[u].image))
        /\ ~race.threads[t].released

----------------------------------------------------------------------------
(* Properties of the order of launch and requests. *)

\* the launch of the Instance read both readiness markers from its child
ReachedReadiness == IsReady(server_running, stop_init_model)

\* some request was sent: by the last operation, a shutdown request, an
\* answered version query or the POST of an analyze
RequestSent ==
    \/ call.reqs # <<>>
    \/ stop_requests # <<>>
    \/ version_answers > 0
    \/ ~IsNone(request)

\* no request is sent by an Instance whose launch has not become ready
NoRequestUnlessReady == RequestSent => ReachedReadiness

\* the construction-time ping is the one request of __init__, sent when ping
\* was asked for and the launch returned
ConstructionPingAfterReady ==
    call.op = "__init__" =>
        /\ ping_arg
        /\ ReachedReadiness
        /\ call.reqs = <<"ping">>
        /\ IsTimeout(call.outcomes[1]) => exc = "NoConnectionError"

\* construction ended by the ping leaves stop able to send its request, and
\* the release sends exactly that one
FailedPingKeepsStop ==
    call.op = "__init__" /\ call.result.exc # "none" =>
        /\ pc = "failed"
        /\ ~StopGuard
        /\ stop_requests = <<>>

\* C36: an Instance that starts its server sends no request (ping, version,
\* analyze, stop) unless its launch reached readiness; the construction-time
\* ping is sent after the launch returned and only when asked for, and when
\* it times out construction ends with NoConnectionError and the release can
\* still send the shutdown request.
C36_NoRequestBeforeReadiness ==
    ~already_running =>
        /\ NoRequestUnlessReady
        /\ ConstructionPingAfterReady
        /\ FailedPingKeepsStop

=============================================================================
